---- MODULE Spec2Model ----
(***************************************************************************)
(* Article-processing and query pipeline of the financial news system:     *)
(* the LangGraph workflow (src/core/graph.py), its agents (src/agents) and *)
(* the relational and vector stores they use (src/database).               *)
(*                                                                         *)
(* A Python str is a sequence of one-character strings; None for an id is  *)
(* 0 (ids are positive); confidences and similarities are per-mille        *)
(* integers (0.9 is 900).                                                  *)
(***************************************************************************)
EXTENDS Integers, Sequences, FiniteSets, TLC

VARIABLES
    rows,        \* news_articles table: row i has id i
    sqlEntities, \* entities table: sqlEntities[i] = entity rows of article i
    sqlImpacts,  \* stock_impacts table: sqlImpacts[i] = impact rows of article i
    vdb,         \* ChromaDB collection: id -> [doc, by]
    pc,          \* per run: the node of the graph about to execute
    st,          \* per run: the AgentState threaded through the graph
    ran,         \* per run: the nodes executed so far, in order (history)
    raised,      \* per run: the collaborator calls that failed (history)
    made,        \* per run: ids of the rows the run inserted (history)
    healed,      \* per run: id of the orphaned embedding the run removed, or 0
                 \* (history)
    seen,        \* per run: the ids in the collection when deduplication queried
                 \* it (history)
    faultsLeft,  \* collaborator failures the environment may still inject
    env,         \* the environment of the behaviour: "reliable", "faulty",
                 \* "orphans" or "concurrent"
    qst,         \* the AgentState of the query run, the fault it met and the
                 \* order in which collection.query returned the ids
    qpc          \* "idle" or "done": position of the query run

vars == <<rows, sqlEntities, sqlImpacts, vdb, pc, st, ran, raised, made, healed, seen,
          faultsLeft, env, qst, qpc>>

-----------------------------------------------------------------------------
(* Bounds of the model *)

MaxRuns == 2        \* process_article runs of a behaviour
MaxFaultyRuns == 2  \* the same, when collaborators may fail
MaxFaults == 1      \* collaborator failures of a behaviour
MaxExtractorRuns == 1 \* runs of a behaviour when the extractors' outputs are varied
MaxNeighbourRuns == 3 \* runs of a behaviour when the articles are near one another
MaxOrphans == 2     \* vector entries without a row in the initial stores

\* the runs of the longest behaviours
Runs == 1..(IF MaxRuns > MaxNeighbourRuns THEN MaxRuns ELSE MaxNeighbourRuns)

-----------------------------------------------------------------------------
(* Text helpers (Python str methods and the regular expressions used) *)

Whitespace == {" ", "\t", "\n", "\r"}

Upper == <<"A","B","C","D","E","F","G","H","I","J","K","L","M",
           "N","O","P","Q","R","S","T","U","V","W","X","Y","Z">>
Lower == <<"a","b","c","d","e","f","g","h","i","j","k","l","m",
           "n","o","p","q","r","s","t","u","v","w","x","y","z">>
Digits == {"0","1","2","3","4","5","6","7","8","9"}

Range(s) == {s[i] : i \in DOMAIN s}

\* \w of the regular expression
WordChars == Range(Upper) \cup Range(Lower) \cup Digits \cup {"_"}

\* the punctuation clean_text keeps: . , ! ? ; : ( ) - ' " % $
KeptPunct == {".", ",", "!", "?", ";", ":", "(", ")", "-", "'", "\"", "%", "$"}

LowerChar(c) ==
    IF \E i \in DOMAIN Upper : Upper[i] = c
    THEN Lower[CHOOSE i \in DOMAIN Upper : Upper[i] = c]
    ELSE c

\* str.lower()
ToLower(s) == [i \in DOMAIN s |-> LowerChar(s[i])]

RECURSIVE LStrip(_)
LStrip(s) ==
    IF s = <<>> THEN <<>>
    ELSE IF Head(s) \in Whitespace THEN LStrip(Tail(s)) ELSE s

RECURSIVE RStrip(_)
RStrip(s) ==
    IF s = <<>> THEN <<>>
    ELSE IF s[Len(s)] \in Whitespace THEN RStrip(SubSeq(s, 1, Len(s) - 1)) ELSE s

\* str.strip()
Strip(s) == RStrip(LStrip(s))

\* re.sub(r"\s+", " ", text): every maximal run of whitespace becomes one space
RECURSIVE CollapseWs(_)
CollapseWs(s) ==
    IF s = <<>> THEN <<>>
    ELSE IF Head(s) \in Whitespace
         THEN <<" ">> \o CollapseWs(LStrip(s))
         ELSE <<Head(s)>> \o CollapseWs(Tail(s))

\* re.sub(r"[^\w\s.,!?;:()\-'\"%$]", " ", text): each other character becomes a space
ReplaceSpecial(s) ==
    [i \in DOMAIN s |->
        IF s[i] \in WordChars \cup Whitespace \cup KeptPunct THEN s[i] ELSE " "]

clean_text(text) ==
    IF text = <<>> THEN <<>>
    ELSE Strip(ReplaceSpecial(CollapseWs(text)))

\* index of the first "." of s, or Len(s) + 1
RECURSIVE FirstDot(_, _)
FirstDot(s, i) ==
    IF i > Len(s) THEN i
    ELSE IF s[i] = "." THEN i ELSE FirstDot(s, i + 1)

\* index of the last " " of s, or 0
RECURSIVE LastSpace(_, _)
LastSpace(s, i) ==
    IF i = 0 THEN 0
    ELSE IF s[i] = " " THEN i ELSE LastSpace(s, i - 1)

TitleMaxLength == 200

extract_title_from_content(content) ==
    IF content = <<>> THEN <<"U","n","t","i","t","l","e","d">>
    ELSE LET title == Strip(SubSeq(content, 1, FirstDot(content, 1) - 1))
         IN  IF Len(title) > TitleMaxLength
             THEN LET cut == SubSeq(title, 1, TitleMaxLength)
                      sp  == LastSpace(cut, Len(cut))
                  IN  (IF sp = 0 THEN cut ELSE SubSeq(cut, 1, sp - 1))
                         \o <<".", ".", ".">>
             ELSE title

-----------------------------------------------------------------------------
(* Article values.  A field of the raw article dictionary is a str, a      *)
(* value of another type, or absent.                                       *)

Str(s) == [kind |-> "str", v |-> s]
NonStr == [kind |-> "int", v |-> <<>>]
Missing == [kind |-> "missing", v |-> <<>>]

NoArticle == [present |-> FALSE, title |-> Missing, content |-> Missing,
              source |-> "unknown"]

Article(t, c, s) == [present |-> TRUE, title |-> t, content |-> c, source |-> s]

\* validate_news_article: "ok" or the error message
validate_news_article(data) ==
    IF data.title.kind = "missing" THEN "Missing required field: title"
    ELSE IF data.content.kind = "missing" THEN "Missing required field: content"
    ELSE IF data.title.kind # "str" \/ Len(Strip(data.title.v)) = 0
         THEN "Title must be a non-empty string"
    ELSE IF data.content.kind # "str" \/ Len(Strip(data.content.v)) = 0
         THEN "Content must be a non-empty string"
    ELSE "ok"

IsValid(data) == validate_news_article(data) = "ok"

\* create_article_state
create_article_state(article) ==
    [article |-> article, article_id |-> 0, is_duplicate |-> FALSE,
     duplicate_of_id |-> 0, entities |-> <<>>, stock_impacts |-> <<>>,
     errors |-> <<>>]

\* ingestion_agent: the state it returns
ingestion_agent(state) ==
    LET article == state.article IN
    IF ~article.present
    THEN [state EXCEPT !.errors = Append(@, "No article provided to ingestion agent")]
    ELSE IF ~IsValid(article)
    THEN [state EXCEPT !.errors = Append(@, "Invalid article")]
    ELSE LET title0  == clean_text(article.title.v)
             content == clean_text(article.content.v)
             title   == IF title0 = <<>> THEN extract_title_from_content(content)
                        ELSE title0
         IN  [state EXCEPT !.article =
                 Article(Str(title), Str(content), article.source)]

-----------------------------------------------------------------------------
(* Embedding provider and vector store (src/database/vector_db.py) *)

\* the text the agents embed: f"{article['title']}\n{article['content']}"
FieldText(f) == IF f.kind = "str" THEN f.v ELSE <<"5">>
DocOf(article) == FieldText(article.title) \o <<"\n">> \o FieldText(article.content)

\* article['title'] or article['content'] raises KeyError
LacksKey(article) ==
    article.title.kind = "missing" \/ article.content.kind = "missing"

dT == <<"t", "\n">>
dAB == dT \o <<"a", "b">>
dCD == dT \o <<"c", "d">>
dCE == dT \o <<"c", "e">>
dCF == dT \o <<"c", "f">>
dXY == dT \o <<"x", "y">>
dCG == dT \o <<"c", "g">>

qHDFC == <<"h", "d", "f", "c", "?">>
qBank == <<"b", "a", "n", "k", "?">>
qRBI == <<"r", "b", "i", "?">>
qXY == <<"x", "y", "?">>

\* texts "e<i><j>" and "q<i><j>": the rule-based extractor answers them with its
\* i-th output and the model extractor with its j-th output
ChoiceDigits == <<"1", "2", "3", "4", "5", "6">>

ChoiceText(letter, i, j) == <<letter, ChoiceDigits[i], ChoiceDigits[j]>>

\* the document of the article with title "t" and content "e<i><j>"
ChoiceDoc(i, j) == <<"t", "\n">> \o ChoiceText("e", i, j)

\* cosine distance, per mille, between the embeddings of two texts
Distance(d1, d2) ==
    IF d1 = d2 THEN 0
    ELSE IF {d1, d2} = {qHDFC, dAB} THEN 300
    ELSE IF {d1, d2} = {qHDFC, dCD} THEN 400
    ELSE IF {d1, d2} = {qXY, dXY} THEN 100
    ELSE IF {d1, d2} = {qXY, dAB} THEN 350
    ELSE IF {d1, d2} = {qRBI, dAB} THEN 150
    ELSE IF {d1, d2} = {qRBI, dCD} THEN 150
    ELSE IF {d1, d2} = {dAB, dCD} THEN 50
    ELSE IF {d1, d2} = {dAB, dCE} THEN 100
    ELSE IF {d1, d2} = {dAB, dCF} THEN 101
    ELSE IF {d1, d2} = {dCD, dCE} THEN 80
    ELSE IF {d1, d2} = {dAB, dXY} THEN 1200
    ELSE IF {d1, d2} = {dAB, dCG} THEN 100
    ELSE IF {d1, d2} = {dCF, dCG} THEN 40
    ELSE IF {d1, d2} = {ChoiceText("q", 3, 5), ChoiceDoc(3, 2)} THEN 200
    ELSE IF {d1, d2} = {ChoiceText("q", 3, 2), ChoiceDoc(4, 1)} THEN 250
    ELSE IF {d1, d2} = {ChoiceText("q", 1, 1), ChoiceDoc(5, 6)} THEN 300
    ELSE IF {d1, d2} = {ChoiceText("q", 6, 1), ChoiceDoc(4, 1)} THEN 150
    ELSE IF {d1, d2} = {ChoiceText("q", 6, 1), ChoiceDoc(5, 6)} THEN 150
    ELSE 700

deduplication_threshold == 900
query_similarity_threshold == 650
DedupNResults == 5
QueryNResults == 20

MinOf(S) == CHOOSE x \in S : \A y \in S : x <= y

\* collection.query: the ids of the n nearest entries, nearest first; entries at
\* the same distance come in an order the index chooses
RECURSIVE NearestOrders(_, _, _, _)
NearestOrders(store, ids, doc, n) ==
    IF n = 0 \/ ids = {} THEN {<<>>}
    ELSE LET m    == MinOf({Distance(doc, store[i].doc) : i \in ids})
             near == {i \in ids : Distance(doc, store[i].doc) = m}
         IN  UNION {{<<i>> \o t : t \in NearestOrders(store, ids \ {i}, doc, n - 1)}
                      : i \in near}

RECURSIVE KeepSimilarStrict(_, _, _, _)
\* KeepSimilar with "similarity > threshold" for the filter
KeepSimilarStrict(store, doc, order, threshold) ==
    IF order = <<>> THEN <<>>
    ELSE LET id         == Head(order)
             similarity == 1000 - Distance(doc, store[id].doc)
             rest       == KeepSimilarStrict(store, doc, Tail(order), threshold)
         IN  IF similarity > threshold
             THEN <<[id |-> id, similarity |-> similarity]>> \o rest
             ELSE rest

RECURSIVE KeepSimilar(_, _, _, _)
KeepSimilar(store, doc, order, threshold) ==
    IF order = <<>> THEN <<>>
    ELSE LET id         == Head(order)
             similarity == 1000 - Distance(doc, store[id].doc)
             rest       == KeepSimilar(store, doc, Tail(order), threshold)
         IN  IF similarity >= threshold
             THEN <<[id |-> id, similarity |-> similarity]>> \o rest
             ELSE rest

\* VectorDatabase.search_similar, given the order collection.query answered in;
\* a failing collection.query is caught and answered with []
search_similar(store, doc, order, threshold, failed) ==
    IF failed THEN <<>>
    ELSE KeepSimilar(store, doc, order, threshold)

\* add_news that adds nothing
add_news_skipped(store, id, doc, by) == store

\* VectorDatabase.add_news: collection.add leaves an id already in the
\* collection as it is
add_news(store, id, doc, by) ==
    IF id \in DOMAIN store THEN store
    ELSE (id :> [doc |-> doc, by |-> by]) @@ store

\* VectorDatabase.delete_by_id; a failing collection.delete is caught
delete_by_id(store, id, failed) ==
    IF failed THEN store
    ELSE [i \in (DOMAIN store) \ {id} |-> store[i]]

-----------------------------------------------------------------------------
(* deduplication_agent (src/agents/deduplication_agent.py) *)

\* fault: "none", "embed" (embed_text raises), "vector_init" (get_vector_db
\* raises) or "search" (collection.query raises inside search_similar)
\* deduplication_agent without the except block's append to errors
deduplication_agent_silent(state, store, order, fault) ==
    [state EXCEPT !.is_duplicate = FALSE]

\* the agent taking the last of the similar articles instead of the first
deduplication_agent_farthest(state, store, order, fault) ==
    LET article == state.article IN
    IF ~article.present
    THEN [state EXCEPT !.errors = Append(@, "No article provided to deduplication agent")]
    ELSE IF LacksKey(article) \/ fault \in {"embed", "vector_init"}
    THEN [state EXCEPT !.errors = Append(@, "Deduplication error"),
                       !.is_duplicate = FALSE]
    ELSE LET similar_articles ==
                 search_similar(store, DocOf(article), order,
                                deduplication_threshold, fault = "search")
         IN  IF similar_articles # <<>>
             THEN [state EXCEPT !.is_duplicate = TRUE,
                                !.duplicate_of_id =
                                    similar_articles[Len(similar_articles)].id]
             ELSE [state EXCEPT !.is_duplicate = FALSE,
                                !.duplicate_of_id = 0]

deduplication_agent(state, store, order, fault) ==
    LET article == state.article IN
    IF ~article.present
    THEN [state EXCEPT !.errors = Append(@, "No article provided to deduplication agent")]
    ELSE IF LacksKey(article) \/ fault \in {"embed", "vector_init"}
    THEN [state EXCEPT !.errors = Append(@, "Deduplication error"),
                       !.is_duplicate = FALSE]
    ELSE LET similar_articles ==
                 search_similar(store, DocOf(article), order,
                                deduplication_threshold, fault = "search")
         IN  IF similar_articles # <<>>
             THEN [state EXCEPT !.is_duplicate = TRUE,
                                !.duplicate_of_id = similar_articles[1].id]
             ELSE [state EXCEPT !.is_duplicate = FALSE,
                                !.duplicate_of_id = 0]

-----------------------------------------------------------------------------
(* Entity extraction (src/agents/entity_extraction_agent.py) *)

\* normalize_entity_type: plural labels to the canonical singular, others unchanged
normalize_entity_type(t) ==
    CASE t = "companies"  -> "company"
      [] t = "sectors"    -> "sector"
      [] t = "regulators" -> "regulator"
      [] t = "people"     -> "person"
      [] t = "events"     -> "event"
      [] OTHER            -> t

\* the pairs (normalized type, value) in the order the two nested loops visit them
RECURSIVE Flatten(_)
FlattenValues(t, values) == [i \in DOMAIN values |-> <<normalize_entity_type(t), values[i]>>]
Flatten(dict) ==
    IF dict = <<>> THEN <<>>
    ELSE FlattenValues(Head(dict)[1], Head(dict)[2]) \o Flatten(Tail(dict))

\* the key without the lower-casing and trimming of the value
entity_key_raw(normalized_type, entity_value) ==
    <<normalized_type, entity_value>>

entity_key(normalized_type, entity_value) ==
    <<normalized_type, Strip(ToLower(entity_value))>>

NerConfidence == 900
LlmConfidence == 950

Entity(t, v, c) == [entity_type |-> t, entity_value |-> v, confidence |-> c]

\* first loop: the rule-based extractor's output
RECURSIVE AddNer(_, _, _)
AddNer(entities, entity_set, pairs) ==
    IF pairs = <<>> THEN [entities |-> entities, entity_set |-> entity_set]
    ELSE LET t   == Head(pairs)[1]
             v   == Head(pairs)[2]
             key == entity_key(t, v)
         IN  IF v # <<>> /\ key \notin entity_set
             THEN AddNer(Append(entities, Entity(t, v, NerConfidence)),
                         entity_set \cup {key}, Tail(pairs))
             ELSE AddNer(entities, entity_set, Tail(pairs))

\* the company branch without a matching entity
FirstMatchNone(entities, t, v) == 0

\* the inner loop of the company branch: the first entity with the key gets 0.95
FirstMatch(entities, t, v) ==
    LET hits == {i \in DOMAIN entities :
                    /\ entities[i].entity_type = t
                    /\ Strip(ToLower(entities[i].entity_value)) = Strip(ToLower(v))}
    IN  IF hits = {} THEN 0 ELSE MinOf(hits)

\* second loop: the model extractor's output
RECURSIVE AddLlm(_, _, _)
AddLlm(entities, entity_set, pairs) ==
    IF pairs = <<>> THEN entities
    ELSE LET t   == Head(pairs)[1]
             v   == Head(pairs)[2]
             key == entity_key(t, v)
             i   == FirstMatch(entities, t, v)
         IN  IF v = <<>> THEN AddLlm(entities, entity_set, Tail(pairs))
             ELSE IF key \notin entity_set
             THEN AddLlm(Append(entities, Entity(t, v, LlmConfidence)),
                         entity_set \cup {key}, Tail(pairs))
             ELSE IF t = "company" /\ i # 0
             THEN AddLlm([entities EXCEPT ![i].confidence = LlmConfidence],
                         entity_set, Tail(pairs))
             ELSE AddLlm(entities, entity_set, Tail(pairs))

MergeEntities(ner_dict, llm_dict) ==
    LET first == AddNer(<<>>, {}, Flatten(ner_dict))
    IN  AddLlm(first.entities, first.entity_set, Flatten(llm_dict))

\* LLMService.extract_entities: a failing call is caught and answered with
\* the empty structure
EmptyEntities ==
    << <<"companies", <<>> >>, <<"sectors", <<>> >>, <<"regulators", <<>> >>,
       <<"people", <<>> >>, <<"events", <<>> >> >>

\* fault: "none", "ner" (the rule-based extractor raises), "llm_init"
\* (get_llm_service raises) or "llm" (the model call raises inside
\* LLMService.extract_entities)
entity_extraction_agent(state, ner_dict, llm_dict, fault) ==
    LET article == state.article IN
    IF ~article.present
    THEN [state EXCEPT !.errors = Append(@, "No article provided to entity extraction agent")]
    ELSE IF LacksKey(article) \/ fault \in {"ner", "llm_init"}
    THEN [state EXCEPT !.errors = Append(@, "Entity extraction error"),
                       !.entities = <<>>]
    ELSE [state EXCEPT !.entities =
             MergeEntities(ner_dict, IF fault = "llm" THEN EmptyEntities ELSE llm_dict)]

-----------------------------------------------------------------------------
(* Stock mapper (src/services/stock_mapper.py) *)

\* StockMapper._create_default_mappings: company_to_symbol, in insertion order
default_company_to_symbol ==
    << << <<"H","D","F","C"," ","B","a","n","k">>, "HDFCBANK">>,
       << <<"H","D","F","C">>, "HDFCBANK">>,
       << <<"I","C","I","C","I"," ","B","a","n","k">>, "ICICIBANK">>,
       << <<"I","C","I","C","I">>, "ICICIBANK">>,
       << <<"S","t","a","t","e"," ","B","a","n","k"," ","o","f"," ","I","n","d","i","a">>, "SBIN">>,
       << <<"S","B","I">>, "SBIN">>,
       << <<"R","e","l","i","a","n","c","e"," ","I","n","d","u","s","t","r","i","e","s">>, "RELIANCE">>,
       << <<"R","e","l","i","a","n","c","e">>, "RELIANCE">>,
       << <<"R","I","L">>, "RELIANCE">>,
       << <<"I","n","f","o","s","y","s">>, "INFY">>,
       << <<"T","C","S">>, "TCS">>,
       << <<"T","a","t","a"," ","C","o","n","s","u","l","t","a","n","c","y"," ","S","e","r","v","i","c","e","s">>, "TCS">>,
       << <<"W","i","p","r","o">>, "WIPRO">>,
       << <<"B","h","a","r","t","i"," ","A","i","r","t","e","l">>, "BHARTIARTL">>,
       << <<"A","i","r","t","e","l">>, "BHARTIARTL">>,
       << <<"I","T","C">>, "ITC">>,
       << <<"H","i","n","d","u","s","t","a","n"," ","U","n","i","l","e","v","e","r">>, "HINDUNILVR">>,
       << <<"H","U","L">>, "HINDUNILVR">>,
       << <<"A","x","i","s"," ","B","a","n","k">>, "AXISBANK">>,
       << <<"K","o","t","a","k"," ","M","a","h","i","n","d","r","a"," ","B","a","n","k">>, "KOTAKBANK">>,
       << <<"K","o","t","a","k"," ","B","a","n","k">>, "KOTAKBANK">> >>

\* StockMapper._load_mappings: the table of data/stock_mappings.json, which
\* holds the defaults unless the deployment has added companies to it
company_to_symbol ==
    IF env = "mappings"
    THEN default_company_to_symbol
           \o << << <<"A","p","p","l","e"," ","I","n","c">>, "AAPL">> >>
    ELSE default_company_to_symbol

\* sector_to_stocks, in insertion order
sector_to_stocks ==
    << << <<"B","a","n","k","i","n","g">>,
          <<"HDFCBANK", "ICICIBANK", "SBIN", "AXISBANK", "KOTAKBANK", "INDUSINDBK", "PNB", "BANKBARODA">> >>,
       << <<"I","T">>,
          <<"TCS", "INFY", "WIPRO", "HCLTECH", "TECHM", "LTIM">> >>,
       << <<"P","h","a","r","m","a">>,
          <<"SUNPHARMA", "DRREDDY", "CIPLA", "LUPIN", "AUROPHARMA">> >>,
       << <<"A","u","t","o">>,
          <<"MARUTI", "TATAMOTORS", "M&M", "BAJAJ-AUTO", "HEROMOTOCO">> >>,
       << <<"O","i","l">>,
          <<"RELIANCE", "ONGC", "IOC", "BPCL", "HPCL">> >>,
       << <<"T","e","l","e","c","o","m">>,
          <<"BHARTIARTL", "IDEA">> >>,
       << <<"R","e","t","a","i","l">>,
          <<"RELIANCE", "DMART">> >>,
       << <<"S","t","e","e","l">>,
          <<"TATASTEEL", "JSWSTEEL", "SAIL">> >>,
       << <<"C","e","m","e","n","t">>,
          <<"ULTRACEMCO", "SHREECEM", "ACC">> >>,
       << <<"P","o","w","e","r">>,
          <<"NTPC", "POWERGRID", "TATAPOWER">> >> >>

\* regulator_to_sectors, in insertion order
regulator_to_sectors ==
    << << <<"R","B","I">>, << <<"B","a","n","k","i","n","g">>, <<"F","i","n","a","n","c","i","a","l"," ","S","e","r","v","i","c","e","s">>>> >>,
       << <<"S","E","B","I">>, << <<"A","l","l"," ","S","e","c","t","o","r","s">>>> >>,
       << <<"I","R","D","A">>, << <<"I","n","s","u","r","a","n","c","e">>>> >>,
       << <<"T","R","A","I">>, << <<"T","e","l","e","c","o","m">>>> >> >>

\* the legal suffixes of normalize_company_name's pattern, lower-cased
CompanySuffixes ==
    { <<"l","t","d">>,
      <<"l","i","m","i","t","e","d">>,
      <<"i","n","c">>,
      <<"i","n","c","o","r","p","o","r","a","t","e","d">>,
      <<"c","o","r","p">>,
      <<"c","o","r","p","o","r","a","t","i","o","n">>,
      <<"l","l","c">> }

UpperChar(c) ==
    IF \E i \in DOMAIN Lower : Lower[i] = c
    THEN Upper[CHOOSE i \in DOMAIN Lower : Lower[i] = c]
    ELSE c

\* str.upper()
ToUpper(s) == [i \in DOMAIN s |-> UpperChar(s[i])]

IsLetter(c) == c \in Range(Upper) \cup Range(Lower)

\* str.title(): a letter after a non-letter is upper-cased, any other lower-cased
Title(s) ==
    [i \in DOMAIN s |->
        IF i = 1 \/ ~IsLetter(s[IF i = 1 THEN 1 ELSE i - 1])
        THEN UpperChar(s[i]) ELSE LowerChar(s[i])]

StartsWith(s, p) == Len(p) <= Len(s) /\ SubSeq(s, 1, Len(p)) = p
EndsWith(s, p) == Len(p) <= Len(s) /\ SubSeq(s, Len(s) - Len(p) + 1, Len(s)) = p

\* Python's "a in b" for str
IsSubstring(a, b) ==
    \E i \in 1..(Len(b) - Len(a) + 1) : SubSeq(b, i, i + Len(a) - 1) = a

\* str.replace(old, ""), old not empty
RECURSIVE Remove(_, _)
Remove(s, old) ==
    IF s = <<>> THEN <<>>
    ELSE IF StartsWith(s, old) THEN Remove(SubSeq(s, Len(old) + 1, Len(s)), old)
    ELSE <<Head(s)>> \o Remove(Tail(s), old)

\* re.sub(r"\s+(Ltd|Limited|Inc|Incorporated|Corp|Corporation|LLC)\s*\.?$", "",
\*        name, flags=re.IGNORECASE): the match runs to the end of the string (or
\* to its final newline), so the suffix is the last word of the name
StripSuffix(name) ==
    LET nl   == name # <<>> /\ name[Len(name)] = "\n"
        a0   == IF nl THEN SubSeq(name, 1, Len(name) - 1) ELSE name
        a    == IF a0 # <<>> /\ a0[Len(a0)] = "." THEN SubSeq(a0, 1, Len(a0) - 1) ELSE a0
        b    == RStrip(a)
        hits == {x \in CompanySuffixes :
                    /\ Len(b) > Len(x)
                    /\ EndsWith(ToLower(b), x)
                    /\ b[Len(b) - Len(x)] \in Whitespace}
    IN  IF hits = {} THEN name
        ELSE LET x == CHOOSE y \in hits : \A z \in hits : Len(y) >= Len(z)
             IN  RStrip(SubSeq(b, 1, Len(b) - Len(x)))
                   \o (IF nl THEN <<"\n">> ELSE <<>>)

normalize_company_name(name) ==
    IF name = <<>> THEN <<>>
    ELSE Strip(CollapseWs(StripSuffix(name)))

\* the first key, in table order, satisfying P; 0 when there is none
FirstKey(P(_)) ==
    LET hits == {i \in DOMAIN company_to_symbol : P(company_to_symbol[i][1])}
    IN  IF hits = {} THEN 0 ELSE MinOf(hits)

\* the partial match without the minimum key length
PartialAnyLength(key, lowered) ==
    IsSubstring(ToLower(key), lowered) \/ IsSubstring(lowered, ToLower(key))

Partial(key, lowered) ==
    /\ IsSubstring(ToLower(key), lowered) \/ IsSubstring(lowered, ToLower(key))
    /\ Len(key) > 3

\* StockMapper.map_company_to_symbol: the symbol, or "" for None
map_company_to_symbol(company_name) ==
    IF company_name = <<>> THEN ""
    ELSE LET normalized_name  == normalize_company_name(company_name)
             normalized_lower == ToLower(normalized_name)
             company_lower    == ToLower(company_name)
             direct == FirstKey(LAMBDA k : k = normalized_name)
             nocase == FirstKey(LAMBDA k : ToLower(k) = normalized_lower)
             part   == FirstKey(LAMBDA k : Partial(k, normalized_lower))
             orig   == FirstKey(LAMBDA k : Partial(k, company_lower))
         IN  IF direct # 0 THEN company_to_symbol[direct][2]
             ELSE IF nocase # 0 THEN company_to_symbol[nocase][2]
             ELSE IF part # 0 THEN company_to_symbol[part][2]
             ELSE IF orig # 0 THEN company_to_symbol[orig][2]
             ELSE ""

\* dict.get(key, []) on sector_to_stocks
SectorGet(key) ==
    LET hits == {i \in DOMAIN sector_to_stocks : sector_to_stocks[i][1] = key}
    IN  IF hits = {} THEN <<>> ELSE sector_to_stocks[MinOf(hits)][2]

\* StockMapper.get_stocks_for_sector
get_stocks_for_sector(sector) ==
    IF sector = <<>> THEN <<>>
    ELSE LET sector_clean ==
                 Strip(Remove(Remove(sector, <<" ","s","e","c","t","o","r">>),
                              <<" ","S","e","c","t","o","r">>))
             sector_key == Title(sector_clean)
             stocks     == SectorGet(sector_key)
             hits == {i \in DOMAIN sector_to_stocks :
                         ToLower(sector_to_stocks[i][1]) = ToLower(sector_key)}
         IN  IF stocks = <<>> /\ hits # {}
             THEN sector_to_stocks[MinOf(hits)][2]
             ELSE stocks

\* StockMapper.get_sectors_for_regulator
get_sectors_for_regulator(regulator) ==
    LET hits == {i \in DOMAIN regulator_to_sectors :
                    regulator_to_sectors[i][1] = ToUpper(regulator)}
    IN  IF hits = {} THEN <<>> ELSE regulator_to_sectors[MinOf(hits)][2]

RECURSIVE Concat(_)
Concat(ss) == IF ss = <<>> THEN <<>> ELSE Head(ss) \o Concat(Tail(ss))

\* the elements of s, each once, in order of first appearance
Distinct(s) ==
    LET IsFirst(i) == \A j \in 1..(i - 1) : s[j] # s[i]
        firsts == SelectSeq([i \in DOMAIN s |-> i], IsFirst)
    IN  [k \in DOMAIN firsts |-> s[firsts[k]]]

Reverse(s) == [i \in DOMAIN s |-> s[Len(s) + 1 - i]]

Mapping(symbol, base, impact_type) ==
    [stock_symbol |-> symbol, base_confidence |-> base, impact_type |-> impact_type]

\* set(all_stocks) is iterated in an order the interpreter chooses: set_order
\* is "fwd" or "rev"
all_stocks ==
    Distinct(Concat([i \in DOMAIN sector_to_stocks |-> sector_to_stocks[i][2]]))

AllStocks(set_order) ==
    IF set_order = "rev" THEN Reverse(all_stocks) ELSE all_stocks

RegulatorSectors(entity_value) ==
    LET exact == get_sectors_for_regulator(entity_value)
        low   == ToLower(entity_value)
    IN  IF exact # <<>> THEN exact
        ELSE IF IsSubstring(<<"r","b","i">>, low)
                  \/ IsSubstring(<<"r","e","s","e","r","v","e">>, low)
             THEN get_sectors_for_regulator(<<"R","B","I">>)
        ELSE IF IsSubstring(<<"s","e","b","i">>, low)
             THEN get_sectors_for_regulator(<<"S","E","B","I">>)
        ELSE IF IsSubstring(<<"i","r","d","a">>, low)
             THEN get_sectors_for_regulator(<<"I","R","D","A">>)
        ELSE IF IsSubstring(<<"t","r","a","i">>, low)
             THEN get_sectors_for_regulator(<<"T","R","A","I">>)
        ELSE <<>>

\* StockMapper.map_entity_to_stocks
map_entity_to_stocks(entity_type, entity_value, set_order) ==
    LET normalized_type == normalize_entity_type(entity_type) IN
    IF normalized_type = "company"
    THEN LET symbol == map_company_to_symbol(entity_value)
         IN  IF symbol # "" THEN <<Mapping(symbol, 1000, "direct")>> ELSE <<>>
    ELSE IF normalized_type = "sector"
    THEN LET stocks == get_stocks_for_sector(entity_value)
         IN  [i \in DOMAIN stocks |-> Mapping(stocks[i], 700, "sector")]
    ELSE IF normalized_type = "regulator"
    THEN LET sectors == RegulatorSectors(entity_value)
             per(sector) ==
                 LET stocks == IF sector = <<"A","l","l"," ","S","e","c","t","o","r","s">>
                               THEN AllStocks(set_order)
                               ELSE get_stocks_for_sector(sector)
                 IN  [i \in DOMAIN stocks |-> Mapping(stocks[i], 600, "regulatory")]
         IN  Concat([i \in DOMAIN sectors |-> per(sectors[i])])
    ELSE <<>>

-----------------------------------------------------------------------------
(* stock_impact_agent (src/agents/stock_impact_agent.py) *)

direct_mention_confidence == 1000
sector_impact_confidence_min == 600
sector_impact_confidence_max == 800
regulatory_impact_confidence_min == 500
regulatory_impact_confidence_max == 900

\* the blend with the entity confidence taken as a factor of the maximum
BlendScaled(min, max, entity_confidence) ==
    (max * entity_confidence + 500) \div 1000

\* min + (max - min) * entity confidence, rounded to three decimals
Blend(min, max, entity_confidence) ==
    min + ((max - min) * entity_confidence + 500) \div 1000

ImpactConfidence(mapping, entity) ==
    IF mapping.impact_type = "direct" THEN direct_mention_confidence
    ELSE IF mapping.impact_type = "sector"
    THEN Blend(sector_impact_confidence_min, sector_impact_confidence_max,
               entity.confidence)
    ELSE IF mapping.impact_type = "regulatory"
    THEN Blend(regulatory_impact_confidence_min, regulatory_impact_confidence_max,
               entity.confidence)
    ELSE mapping.base_confidence

\* the inner loop without the processed_stocks test
AddMappingsAll(stock_impacts, processed_stocks, mappings, entity) ==
    [stock_impacts |->
        stock_impacts \o [k \in DOMAIN mappings |->
                            [stock_symbol |-> mappings[k].stock_symbol,
                             confidence |-> ImpactConfidence(mappings[k], entity),
                             impact_type |-> mappings[k].impact_type,
                             source_entity |-> entity.entity_value,
                             source_entity_type |-> entity.entity_type]],
     processed_stocks |-> processed_stocks]

\* the inner loop: the mappings of one entity
\* a mapping is appended unless its stock_key is in processed_stocks, which
\* holds the keys of the earlier entities and of the earlier mappings
AddMappings(stock_impacts, processed_stocks, mappings, entity) ==
    LET stock_key(i) == <<mappings[i].stock_symbol, mappings[i].impact_type>>
        IsAdded(i) == /\ stock_key(i) \notin processed_stocks
                      /\ \A j \in 1..(i - 1) : stock_key(j) # stock_key(i)
        added == SelectSeq([i \in DOMAIN mappings |-> i], IsAdded)
        impact(m) == [stock_symbol |-> m.stock_symbol,
                      confidence |-> ImpactConfidence(m, entity),
                      impact_type |-> m.impact_type,
                      source_entity |-> entity.entity_value,
                      source_entity_type |-> entity.entity_type]
    IN  [stock_impacts |->
            stock_impacts \o [k \in DOMAIN added |-> impact(mappings[added[k]])],
         processed_stocks |-> processed_stocks \cup
                                {stock_key(i) : i \in DOMAIN mappings}]

\* the outer loop: the entities in list order
RECURSIVE AddImpacts(_, _, _, _)
AddImpacts(stock_impacts, processed_stocks, entities, set_order) ==
    IF entities = <<>> THEN stock_impacts
    ELSE LET entity == Head(entities)
             step   == AddMappings(stock_impacts, processed_stocks,
                                   map_entity_to_stocks(entity.entity_type,
                                                        entity.entity_value, set_order),
                                   entity)
         IN  AddImpacts(step.stock_impacts, step.processed_stocks,
                        Tail(entities), set_order)

\* list.sort(key=..., reverse=True) on <<key, item>> pairs: descending by key,
\* equal keys keep their order
SortDesc(s) ==
    LET RECURSIVE From(_)
        From(keys) ==
            IF keys = {} THEN <<>>
            ELSE LET m == CHOOSE x \in keys : \A y \in keys : x >= y
                     HasKey(pair) == pair[1] = m
                 IN  SelectSeq(s, HasKey) \o From(keys \ {m})
    IN  From({s[i][1] : i \in DOMAIN s})

\* the list left in insertion order
SortByConfidenceSkipped(s) == s

\* stock_impacts.sort(key=lambda x: x["confidence"], reverse=True)
SortByConfidence(s) ==
    LET sorted == SortDesc([i \in DOMAIN s |-> <<s[i].confidence, s[i]>>])
    IN  [i \in DOMAIN sorted |-> sorted[i][2]]

\* fault: "none" or "mapper" (get_stock_mapper or a mapping call raises)
stock_impact_agent(state, set_order, fault) ==
    IF state.entities = <<>>
    THEN [state EXCEPT !.stock_impacts = <<>>]
    ELSE IF fault = "mapper"
    THEN [state EXCEPT !.errors = Append(@, "Stock impact error"),
                       !.stock_impacts = <<>>]
    ELSE [state EXCEPT !.stock_impacts =
             SortByConfidence(AddImpacts(<<>>, {}, state.entities, set_order))]

-----------------------------------------------------------------------------
(* The environment: the articles submitted and what the extractors answer *)

tT == <<"t">>
cAB == <<"a", "b">>

ValidInputs ==
    { Article(Str(tT), Str(cAB), "s1"),
      Article(Str(tT), Str(<<" ", "a", "b">>), "s2"),
      Article(Str(tT), Str(<<"c", "d">>), "s1"),
      Article(Str(tT), Str(<<"c", "e">>), "s1"),
      Article(Str(tT), Str(<<"c", "f">>), "s1"),
      Article(Str(tT), Str(<<"x", "y">>), "s1"),
      Article(Str(tT), Str(<<"a", " ", "#", "b">>), "s1"),
      Article(Str(<<"#">>), Str(<<"a", "b", ".">>), "s1"),
      Article(Str(tT), Str(<<"#">>), "s1") }

InvalidInputs ==
    { Article(Str(<<" ">>), Str(cAB), "s1"),
      Article(Missing, Str(cAB), "s1"),
      Article(Str(tT), NonStr, "s1"),
      Article(Str(tT), Str(<<>>), "s1"),
      NoArticle }

ArticleInputs == ValidInputs \cup InvalidInputs

\* the inputs tried when collaborators may fail
FaultyInputs ==
    { Article(Str(tT), Str(cAB), "s1"),
      Article(Str(tT), Str(<<"c", "d">>), "s1"),
      Article(Str(<<" ">>), Str(cAB), "s1") }

\* the articles submitted to a deployment that starts with orphaned embeddings
OrphanInputs ==
    { Article(Str(tT), Str(cAB), "s1"),
      Article(Str(tT), Str(<<"c", "d">>), "s1"),
      Article(Str(tT), Str(<<"x", "y">>), "s1"),
      NoArticle }

\* the articles submitted by clients that do not wait for one another
ConcurrentInputs ==
    { Article(Str(tT), Str(cAB), "s1"),
      Article(Str(tT), Str(<<" ">> \o cAB), "s2"),
      Article(Str(tT), Str(<<"c", "f">>), "s1") }

ExtractorInputs ==
    { Article(Str(tT), Str(ChoiceText("e", i, j)), "s1") :
        i \in DOMAIN ChoiceDigits, j \in DOMAIN ChoiceDigits }

\* company names the rule-based extractor finds in the articles "n1".."n3"
NameChoices ==
    << << <<"I","n","f","o","s","y","s"," ","L","t","d">>,
          <<"h","d","f","c">>,
          <<"B","a","n","k"," ","o","f"," ","I","n","d","i","a">>,
          <<"T","C">>,
          <<"Z","o","m","a","t","o">>,
          <<"B","i","g"," ","A","p","p","l","e"," ","I","n","c">> >>,
       << <<"I","C","I","C","I"," ","B","a","n","k"," ","a","n","d"," ","H","D","F","C">>,
          <<"w","i","p","r","o"," ","t","e","c","h","n","o","l","o","g","i","e","s"," ","i","n","c",".">>,
          <<"r","i","l">>,
          <<"K","o","t","a","k"," "," ","B","a","n","k">> >>,
       << <<" ","L","t","d">>,
          <<"A","x","i","s"," ","B","a","n","k"," ","L","i","m","i","t","e","d">>,
          <<"R","I","L">>,
          <<"T","C","S"," ","l","t","d"," ">> >> >>

\* articles of which the third is near the two others, which are not near
\* one another
NeighbourInputs ==
    { Article(Str(tT), Str(cAB), "s1"),
      Article(Str(tT), Str(<<"c", "f">>), "s1"),
      Article(Str(tT), Str(<<"c", "g">>), "s2") }

\* the articles of a deployment whose queries draw every pair of outputs
QueriedInputs ==
    { Article(Str(tT), Str(ChoiceText("e", 3, 2)), "s1"),
      Article(Str(tT), Str(ChoiceText("e", 5, 6)), "s1"),
      Article(Str(tT), Str(ChoiceText("e", 4, 1)), "s2") }

InputsOf(e) ==
    IF e = "faulty" THEN FaultyInputs
    ELSE IF e = "extractors" THEN ExtractorInputs
    ELSE IF e = "queries" THEN QueriedInputs
    ELSE IF e = "neighbours" THEN NeighbourInputs
    ELSE IF e = "mappings"
    THEN {Article(Str(tT), Str(<<"n", ChoiceDigits[k]>>), "s1") : k \in DOMAIN NameChoices}
    ELSE IF e = "orphans" THEN OrphanInputs
    ELSE IF e = "concurrent" THEN ConcurrentInputs
    ELSE ArticleInputs
RunsOf(e) ==
    IF e = "faulty" THEN 1..MaxFaultyRuns
    ELSE IF e = "extractors" THEN 1..MaxExtractorRuns
    ELSE IF e = "neighbours" THEN 1..MaxNeighbourRuns
    ELSE 1..MaxRuns

vHDFC == <<"H", "D", "F", "C">>
vhdfc == <<"h", "d", "f", "c">>
vBanking == <<"B", "a", "n", "k", "i", "n", "g">>
vRBI == <<"R", "B", "I">>

Dict(companies, sectors, regulators) ==
    << <<"companies", companies>>, <<"sectors", sectors>>,
       <<"regulators", regulators>>, <<"people", <<>> >>, <<"events", <<>> >> >>

vHDFCsp == <<" ", "H", "D", "F", "C">>
vHDFCBank == <<"H", "D", "F", "C", " ", "B", "a", "n", "k">>
vTCS == <<"T", "C", "S">>
vbanking == <<"b", "a", "n", "k", "i", "n", "g">>
vBankingSector == vBanking \o <<" ", "s", "e", "c", "t", "o", "r">>
vIT == <<"I", "T">>
vSEBI == <<"S", "E", "B", "I">>

\* outputs of NERService.extract_entities
NerChoices ==
    << Dict(<<>>, <<>>, <<>>),
       Dict(<<vHDFC>>, <<vBanking>>, <<>>),
       Dict(<<vHDFC, vhdfc, vHDFCBank>>, <<>>, <<vRBI>>),
       Dict(<<vHDFCsp, <<>> >>, <<vBanking, vBankingSector>>, <<vSEBI>>),
       Dict(<<vTCS>>, <<vIT>>, <<vSEBI, vRBI>>),
       Dict(<<>>, <<>>, <<vRBI>>) >>

\* outputs of LLMService.extract_entities: the JSON object the model answered
LlmChoices ==
    << Dict(<<>>, <<>>, <<>>),
       Dict(<<vhdfc>>, <<vBanking>>, <<vRBI>>),
       Dict(<<vTCS, vHDFCBank>>, <<vIT>>, <<>>),
       << <<"company", <<vHDFC>> >>, <<"sector", <<vbanking>> >>,
          <<"regulator", <<vSEBI>> >> >>,
       Dict(<<vHDFC, vHDFCsp>>, <<vBankingSector>>, <<vRBI, vSEBI>>),
       << <<"regulators", <<vRBI>> >>, <<"sectors", <<vIT>> >> >> >>

\* whether text ends with a choice text starting with letter
IsChoiceText(text, letter) ==
    /\ Len(text) >= 3
    /\ text[Len(text) - 2] = letter
    /\ text[Len(text) - 1] \in Range(ChoiceDigits)
    /\ text[Len(text)] \in Range(ChoiceDigits)

ChoiceIndex(c) == CHOOSE i \in DOMAIN ChoiceDigits : ChoiceDigits[i] = c

\* what NERService.extract_entities answers for a text
NerOut(text) ==
    IF IsChoiceText(text, "e") THEN NerChoices[ChoiceIndex(text[Len(text) - 1])]
    ELSE IF \E k \in DOMAIN NameChoices : text = dT \o <<"n", ChoiceDigits[k]>>
    THEN Dict(NameChoices[CHOOSE k \in DOMAIN NameChoices :
                              text = dT \o <<"n", ChoiceDigits[k]>>], <<>>, <<>>)
    ELSE IF text = dAB THEN Dict(<<vHDFC>>, <<vBanking>>, <<>>)
    ELSE IF text \in {dCD, dCE, dCF} THEN Dict(<<>>, <<vBanking>>, <<>>)
    ELSE Dict(<<>>, <<>>, <<>>)

\* what the model answers for a text
LlmOut(text) ==
    IF IsChoiceText(text, "e") THEN LlmChoices[ChoiceIndex(text[Len(text)])]
    ELSE IF text = dAB THEN Dict(<<vhdfc>>, <<>>, <<vRBI>>)
    ELSE IF text = dCD THEN Dict(<<vHDFC>>, <<>>, <<>>)
    ELSE Dict(<<>>, <<>>, <<>>)

-----------------------------------------------------------------------------
(* Relational store (src/database/sql_db.py) *)

\* get_article answering None for every id
NoRow(table, id) == FALSE

HasRow(table, id) == id \in DOMAIN table

\* store_article committing the row twice
store_article_twice(table, title, content, source, is_duplicate, duplicate_of_id) ==
    LET row == [title |-> title, content |-> content, source |-> source,
                is_duplicate |-> is_duplicate, duplicate_of_id |-> duplicate_of_id]
    IN  table \o <<row, row>>

\* SQLDatabase.store_article: the table with the new row; its id is Len + 1
store_article(table, title, content, source, is_duplicate, duplicate_of_id) ==
    Append(table, [title |-> title, content |-> content, source |-> source,
                   is_duplicate |-> is_duplicate,
                   duplicate_of_id |-> duplicate_of_id])

\* SQLDatabase.store_entities / store_stock_impacts: one row per list element,
\* added to those of the article
store_children(table, article_id, children) ==
    [table EXCEPT ![article_id] = @ \o children]

-----------------------------------------------------------------------------
(* The processing graph (src/core/graph.py) and the storage agent *)

\* the failure the environment injects at a call, "none" when the call succeeds
Faults(labels) == IF faultsLeft > 0 THEN labels \cup {"none"} ELSE {"none"}

Spend(fault) == faultsLeft' = IF fault = "none" THEN faultsLeft ELSE faultsLeft - 1

Note(r, label, fault) ==
    raised' = IF fault = "none" THEN raised
              ELSE [raised EXCEPT ![r] = @ \cup {<<label, fault>>}]

\* should_continue with the two answers exchanged
should_continue_inverted(state) == IF state.is_duplicate THEN "store" ELSE "skip"

\* should_continue
should_continue(state) == IF state.is_duplicate THEN "skip" ELSE "store"

UNCHANGED_stores == UNCHANGED <<rows, sqlEntities, sqlImpacts, vdb>>
UNCHANGED_query == UNCHANGED <<qst, qpc>>

\* graph.invoke(create_article_state(article)): the run enters the entry point
Start(r, article) ==
    /\ pc[r] = "idle"
    /\ r \in RunsOf(env)
    /\ article \in InputsOf(env)
    /\ qpc = "idle"      \* the query, which changes no store, is explored last
    /\ \A q \in Runs :
          q = r - 1 => IF env = "concurrent" THEN pc[q] # "idle" ELSE pc[q] = "done"
    /\ st' = [st EXCEPT ![r] = create_article_state(article)]
    /\ pc' = [pc EXCEPT ![r] = "ingestion"]
    /\ UNCHANGED <<ran, raised, made, healed, faultsLeft, seen, env>>
    /\ UNCHANGED_stores /\ UNCHANGED_query

\* node "ingestion", then the edge to "deduplication"
Ingestion(r) ==
    /\ pc[r] = "ingestion"
    /\ st' = [st EXCEPT ![r] = ingestion_agent(st[r])]
    /\ ran' = [ran EXCEPT ![r] = Append(@, "ingestion")]
    /\ pc' = [pc EXCEPT ![r] = "deduplication"]
    /\ UNCHANGED <<raised, made, healed, faultsLeft, seen, env>>
    /\ UNCHANGED_stores /\ UNCHANGED_query

Embeddable(article) == article.present /\ ~LacksKey(article)

\* node "deduplication", then the edge to "entity_extraction"
Deduplication(r) ==
    /\ pc[r] = "deduplication"
    /\ \E fault \in Faults({"embed", "vector_init", "search"}) :
       \E order \in (IF Embeddable(st[r].article)
                     THEN NearestOrders(vdb, DOMAIN vdb, DocOf(st[r].article),
                                        DedupNResults)
                     ELSE {<<>>}) :
          /\ fault # "none" => Embeddable(st[r].article)
          /\ st' = [st EXCEPT ![r] = deduplication_agent(st[r], vdb, order, fault)]
          /\ Spend(fault)
          /\ Note(r, "deduplication", fault)
    /\ ran' = [ran EXCEPT ![r] = Append(@, "deduplication")]
    /\ pc' = [pc EXCEPT ![r] = "entity_extraction"]
    /\ seen' = [seen EXCEPT ![r] = DOMAIN vdb]
    /\ UNCHANGED <<made, healed, env>>
    /\ UNCHANGED_stores /\ UNCHANGED_query

\* node "entity_extraction", then the conditional edge
EntityExtraction(r) ==
    /\ pc[r] = "entity_extraction"
    /\ \E fault \in Faults({"ner", "llm_init", "llm"}) :
          LET text == IF Embeddable(st[r].article) THEN DocOf(st[r].article) ELSE <<>>
              next == entity_extraction_agent(st[r], NerOut(text), LlmOut(text), fault)
          IN  /\ fault # "none" => Embeddable(st[r].article)
              /\ st' = [st EXCEPT ![r] = next]
              /\ pc' = [pc EXCEPT ![r] = IF should_continue(next) = "store"
                                         THEN "stock_impact" ELSE "storage"]
              /\ Spend(fault)
              /\ Note(r, "entity_extraction", fault)
    /\ ran' = [ran EXCEPT ![r] = Append(@, "entity_extraction")]
    /\ UNCHANGED <<made, healed, seen, env>>
    /\ UNCHANGED_stores /\ UNCHANGED_query

\* node "stock_impact", then the edge to "storage"
StockImpact(r) ==
    /\ pc[r] = "stock_impact"
    /\ \E fault \in Faults({"mapper"}) :
       \E set_order \in {"fwd", "rev"} :
          /\ fault # "none" => st[r].entities # <<>>
          /\ st' = [st EXCEPT ![r] = stock_impact_agent(st[r], set_order, fault)]
          /\ Spend(fault)
          /\ Note(r, "stock_impact", fault)
    /\ ran' = [ran EXCEPT ![r] = Append(@, "stock_impact")]
    /\ pc' = [pc EXCEPT ![r] = "storage"]
    /\ UNCHANGED <<made, healed, seen, env>>
    /\ UNCHANGED_stores /\ UNCHANGED_query

\* storage_agent up to the start of the worker thread: the entry check and
\* verify_and_set_duplicate (sql_db.get_article, and for a missing original
\* vector_db.delete_by_id and the reset of the duplicate fields)
Storage(r) ==
    /\ pc[r] = "storage"
    /\ ran' = [ran EXCEPT ![r] = Append(@, "storage")]
    /\ LET state == st[r] IN
       IF ~state.article.present
       THEN /\ st' = [st EXCEPT ![r].errors =
                          Append(@, "No article provided to storage agent")]
            /\ pc' = [pc EXCEPT ![r] = "done"]
            /\ UNCHANGED <<raised, faultsLeft, vdb, healed>>
       ELSE IF ~state.is_duplicate
       THEN /\ pc' = [pc EXCEPT ![r] = "store_article"]
            /\ UNCHANGED <<st, raised, faultsLeft, vdb, healed>>
       ELSE \E fault \in Faults({"get_article", "delete"}) :
               /\ fault = "delete" => ~HasRow(rows, state.duplicate_of_id)
               /\ Spend(fault)
               /\ Note(r, "storage", fault)
               /\ IF fault = "get_article"
                  THEN \* except: treat as a new article
                       /\ st' = [st EXCEPT ![r].is_duplicate = FALSE,
                                           ![r].duplicate_of_id = 0]
                       /\ pc' = [pc EXCEPT ![r] = "store_article"]
                       /\ UNCHANGED <<vdb, healed>>
                  ELSE IF HasRow(rows, state.duplicate_of_id)
                  THEN \* the original exists: return early
                       /\ st' = [st EXCEPT ![r].article_id = state.duplicate_of_id]
                       /\ pc' = [pc EXCEPT ![r] = "done"]
                       /\ UNCHANGED <<vdb, healed>>
                  ELSE \* the original is missing: the article is stored as new
                       /\ vdb' = delete_by_id(vdb, state.duplicate_of_id,
                                              fault = "delete")
                       /\ st' = [st EXCEPT ![r].is_duplicate = FALSE,
                                           ![r].duplicate_of_id = 0]
                       /\ pc' = [pc EXCEPT ![r] = "store_article"]
                       /\ healed' = [healed EXCEPT ![r] = state.duplicate_of_id]
    /\ UNCHANGED <<rows, sqlEntities, sqlImpacts, made, seen, env>>
    /\ UNCHANGED_query

\* where _store_article_async goes after the article row
AfterArticle(state) ==
    IF state.entities # <<>> THEN "store_entities"
    ELSE IF state.stock_impacts # <<>> THEN "store_stock_impacts"
    ELSE "add_news"

\* _store_article_async: sql_db.store_article.  An exception of the coroutine
\* ends the worker thread; thread.join() returns and storage_agent returns the
\* state as it is
StoreArticle(r) ==
    /\ pc[r] = "store_article"
    /\ LET state   == st[r]
           article == state.article
       IN  \E fault \in Faults({"store_article"}) :
           \E accepted \in (IF article.title.kind = "int" \/ article.content.kind = "int"
                            THEN BOOLEAN ELSE {TRUE}) :
              /\ fault # "none" => ~LacksKey(article)
              /\ Spend(fault)
              /\ Note(r, "storage", fault)
              /\ IF LacksKey(article) \/ fault # "none" \/ ~accepted
                 THEN /\ pc' = [pc EXCEPT ![r] = "done"]
                      /\ UNCHANGED <<rows, sqlEntities, sqlImpacts, st, made>>
                 ELSE /\ rows' = store_article(rows, article.title, article.content,
                                               article.source, state.is_duplicate,
                                               state.duplicate_of_id)
                      /\ sqlEntities' = Append(sqlEntities, <<>>)
                      /\ sqlImpacts' = Append(sqlImpacts, <<>>)
                      /\ st' = [st EXCEPT ![r].article_id = Len(rows')]
                      /\ made' = [made EXCEPT ![r] = @ \cup {Len(rows')}]
                      /\ pc' = [pc EXCEPT ![r] = AfterArticle(state)]
    /\ UNCHANGED <<vdb, ran, healed, seen, env>>
    /\ UNCHANGED_query

\* _store_article_async: sql_db.store_entities
StoreEntities(r) ==
    /\ pc[r] = "store_entities"
    /\ \E fault \in Faults({"store_entities"}) :
          /\ Spend(fault)
          /\ Note(r, "storage", fault)
          /\ IF fault # "none"
             THEN /\ pc' = [pc EXCEPT ![r] = "done"]
                  /\ UNCHANGED sqlEntities
             ELSE /\ sqlEntities' = store_children(sqlEntities, st[r].article_id,
                                                   st[r].entities)
                  /\ pc' = [pc EXCEPT ![r] = IF st[r].stock_impacts # <<>>
                                             THEN "store_stock_impacts"
                                             ELSE "add_news"]
    /\ UNCHANGED <<rows, sqlImpacts, vdb, st, ran, made, healed, seen, env>>
    /\ UNCHANGED_query

\* _store_article_async: sql_db.store_stock_impacts
StoreStockImpacts(r) ==
    /\ pc[r] = "store_stock_impacts"
    /\ \E fault \in Faults({"store_stock_impacts"}) :
          /\ Spend(fault)
          /\ Note(r, "storage", fault)
          /\ IF fault # "none"
             THEN /\ pc' = [pc EXCEPT ![r] = "done"]
                  /\ UNCHANGED sqlImpacts
             ELSE /\ sqlImpacts' = store_children(sqlImpacts, st[r].article_id,
                                                  st[r].stock_impacts)
                  /\ pc' = [pc EXCEPT ![r] = "add_news"]
    /\ UNCHANGED <<rows, sqlEntities, vdb, st, ran, made, healed, seen, env>>
    /\ UNCHANGED_query

\* _store_article_async: embed_text and vector_db.add_news, then the return of
\* storage_agent and the edge to END
AddNews(r) ==
    /\ pc[r] = "add_news"
    /\ \E fault \in Faults({"embed", "add_news"}) :
          /\ Spend(fault)
          /\ Note(r, "storage", fault)
          /\ vdb' = IF fault # "none" THEN vdb
                    ELSE add_news(vdb, st[r].article_id, DocOf(st[r].article), r)
    /\ pc' = [pc EXCEPT ![r] = "done"]
    /\ UNCHANGED <<rows, sqlEntities, sqlImpacts, st, ran, made, healed, seen, env>>
    /\ UNCHANGED_query

-----------------------------------------------------------------------------
(* Query resolution (src/agents/query_agent.py) *)

\* create_query_state
create_query_state(query) ==
    [query |-> query, query_entities |-> <<>>, query_type |-> "",
     results |-> <<>>, errors |-> <<>>]

QueryEntity(t, v) == [entity_type |-> t, entity_value |-> v]

\* the two loops of query_agent over the extractors' outputs
RECURSIVE AddQueryEntities(_, _, _)
AddQueryEntities(query_entities, entity_set, pairs) ==
    IF pairs = <<>>
    THEN [entities |-> query_entities, entity_set |-> entity_set]
    ELSE LET t   == Head(pairs)[1]
             v   == Head(pairs)[2]
             key == entity_key(t, v)
         IN  IF v # <<>> /\ key \notin entity_set
             THEN AddQueryEntities(Append(query_entities, QueryEntity(t, v)),
                                   entity_set \cup {key}, Tail(pairs))
             ELSE AddQueryEntities(query_entities, entity_set, Tail(pairs))

MergeQueryEntities(ner_dict, llm_dict) ==
    LET first == AddQueryEntities(<<>>, {}, Flatten(ner_dict))
    IN  AddQueryEntities(first.entities, first.entity_set, Flatten(llm_dict)).entities

\* the type of the first entity of the list
_determine_query_type_first(query_entities) ==
    IF query_entities # <<>>
         /\ query_entities[1].entity_type \in {"company", "sector", "regulator"}
    THEN query_entities[1].entity_type
    ELSE "theme"

_determine_query_type(query_entities) ==
    LET entity_types == {query_entities[i].entity_type : i \in DOMAIN query_entities}
    IN  IF "company" \in entity_types THEN "company"
        ELSE IF "sector" \in entity_types THEN "sector"
        ELSE IF "regulator" \in entity_types THEN "regulator"
        ELSE IF "companies" \in entity_types THEN "company"
        ELSE IF "sectors" \in entity_types THEN "sector"
        ELSE IF "regulators" \in entity_types THEN "regulator"
        ELSE "theme"

EntityLimit == 50

\* the entity rows of article id that the exact, or the partial, condition keeps
MatchingEntities(entities, id, entity_type, value_lower, partial) ==
    {i \in DOMAIN entities[id] :
        /\ entities[id][i].entity_type = entity_type
        /\ IF partial
           THEN IsSubstring(value_lower, ToLower(entities[id][i].entity_value))
           ELSE ToLower(entities[id][i].entity_value) = value_lower}

\* the joined select: one result per matching entity row of a row that is not
\* a duplicate, newest first
RECURSIVE JoinedSelect(_, _, _, _, _, _)
JoinedSelect(table, entities, id, entity_type, value_lower, partial) ==
    IF id = 0 THEN <<>>
    ELSE LET n == IF table[id].is_duplicate THEN 0
                  ELSE Cardinality(MatchingEntities(entities, id, entity_type,
                                                    value_lower, partial))
         IN  [i \in 1..n |-> id]
               \o JoinedSelect(table, entities, id - 1, entity_type, value_lower, partial)

Take(s, n) == SubSeq(s, 1, IF Len(s) < n THEN Len(s) ELSE n)

\* SQLDatabase.get_articles_by_entity: the ids of the articles it returns
get_articles_by_entity(table, entities, entity_type, entity_value) ==
    LET entity_value_lower == Strip(ToLower(entity_value))
        exact == Take(JoinedSelect(table, entities, Len(table), entity_type,
                                   entity_value_lower, FALSE), EntityLimit)
    IN  IF exact # <<>> THEN exact
        ELSE Take(JoinedSelect(table, entities, Len(table), entity_type,
                               entity_value_lower, TRUE), EntityLimit)

\* the plural label the expansion loop also accepts for a query type
PluralOf(query_type) ==
    CASE query_type = "company"   -> "companies"
      [] query_type = "sector"    -> "sectors"
      [] query_type = "regulator" -> "regulators"
      [] OTHER                    -> ""

\* the ids appended without the "not in articles_by_id" test
AddIdsAll(keys, ids) == keys \o ids

\* articles_by_id.keys() in insertion order after "if article.id not in articles_by_id"
RECURSIVE AddIds(_, _)
AddIds(keys, ids) ==
    IF ids = <<>> THEN keys
    ELSE IF Head(ids) \in Range(keys) THEN AddIds(keys, Tail(ids))
    ELSE AddIds(Append(keys, Head(ids)), Tail(ids))

\* no expansion: the keys of the semantic hits alone
ExpandNone(keys, query_entities, query_type, table, entities) == keys

\* the expansion loop over the query entities of the query's type
RECURSIVE Expand(_, _, _, _, _)
Expand(keys, query_entities, query_type, table, entities) ==
    IF query_entities = <<>> THEN keys
    ELSE LET e == Head(query_entities)
         IN  IF e.entity_type \in {query_type, PluralOf(query_type)}
             THEN Expand(AddIds(keys, get_articles_by_entity(table, entities, query_type,
                                                             e.entity_value)),
                         Tail(query_entities), query_type, table, entities)
             ELSE Expand(keys, Tail(query_entities), query_type, table, entities)

ExcerptLength == 500

Excerpt(content) ==
    IF Len(content) > ExcerptLength
    THEN SubSeq(content, 1, ExcerptLength) \o <<".", ".", ".">>
    ELSE content

\* a result with the synthetic score of the structured queries, whatever its score
ResultFixedScore(id, score, table, entities, impacts) ==
    [article_id |-> id, title |-> FieldText(table[id].title),
     content |-> Excerpt(FieldText(table[id].content)),
     source |-> table[id].source, similarity_score |-> 850,
     entities |-> entities[id],
     stock_impacts |-> [i \in DOMAIN impacts[id] |->
                          [stock_symbol |-> impacts[id][i].stock_symbol,
                           confidence |-> impacts[id][i].confidence,
                           impact_type |-> impacts[id][i].impact_type]]]

Result(id, score, table, entities, impacts) ==
    [article_id |-> id, title |-> FieldText(table[id].title),
     content |-> Excerpt(FieldText(table[id].content)),
     source |-> table[id].source, similarity_score |-> score,
     entities |-> entities[id],
     stock_impacts |-> [i \in DOMAIN impacts[id] |->
                          [stock_symbol |-> impacts[id][i].stock_symbol,
                           confidence |-> impacts[id][i].confidence,
                           impact_type |-> impacts[id][i].impact_type]]]

StructuredScore == 850
ThemeScore == 700

\* the sort that leaves entries of equal score in the reverse of their order
SortByScoreFlipped(s) ==
    LET sorted == SortDesc([i \in DOMAIN s |->
                               <<s[Len(s) + 1 - i].similarity_score, s[Len(s) + 1 - i]>>])
    IN  [i \in DOMAIN sorted |-> sorted[i][2]]

\* results.sort(key=lambda x: x["similarity_score"], reverse=True)
SortByScore(s) ==
    LET sorted == SortDesc([i \in DOMAIN s |-> <<s[i].similarity_score, s[i]>>])
    IN  [i \in DOMAIN sorted |-> sorted[i][2]]

\* _process_query_async without a failing call: the results it stores
QueryResults(query_entities, query_type, similar_articles, table, entities, impacts) ==
    LET found(hit)   == HasRow(table, hit.id)
        semantic     == SelectSeq(similar_articles, found)
        semantic_ids == [i \in DOMAIN semantic |-> semantic[i].id]
        keys == IF query_type \in {"company", "sector", "regulator"}
                THEN Expand(semantic_ids, query_entities, query_type, table, entities)
                ELSE semantic_ids
        vector_article_ids == Range(semantic_ids)
        other(id)  == id \notin vector_article_ids
        expansion  == SelectSeq(keys, other)
        default_similarity ==
            IF query_type \in {"company", "sector", "regulator"}
            THEN StructuredScore ELSE ThemeScore
    IN  SortByScore(
          [i \in DOMAIN semantic |->
              Result(semantic[i].id, semantic[i].similarity, table, entities, impacts)]
          \o [i \in DOMAIN expansion |->
              Result(expansion[i], default_similarity, table, entities, impacts)])

\* whether the run of query_agent makes the call that fails
QueryCallMade(fault, query, ner_dict, llm_dict, store, order, table, entities) ==
    LET query_entities == MergeQueryEntities(ner_dict, llm_dict)
        query_type     == _determine_query_type(query_entities)
        similar_articles ==
            search_similar(store, query, order, query_similarity_threshold, FALSE)
        found(hit) == HasRow(table, hit.id)
        semantic   == SelectSeq(similar_articles, found)
        keys == IF query_type \in {"company", "sector", "regulator"}
                THEN Expand([i \in DOMAIN semantic |-> semantic[i].id],
                            query_entities, query_type, table, entities)
                ELSE [i \in DOMAIN semantic |-> semantic[i].id]
    IN  /\ query # <<>>
        /\ CASE fault = "get_article" -> similar_articles # <<>>
             [] fault = "get_articles_by_entity" ->
                   query_type \in {"company", "sector", "regulator"}
             [] fault \in {"get_entities", "get_stock_impacts"} -> keys # <<>>
             [] OTHER -> TRUE

\* query_agent.  fault: "none", "ner", "llm_init", "llm" (caught inside
\* LLMService.extract_entities), "search" (caught inside search_similar), or a
\* call of _process_query_async that raises in the worker thread: "embed",
\* "get_article", "get_articles_by_entity", "get_entities", "get_stock_impacts"
query_agent(state, ner_dict, llm_dict, store, order, table, entities, impacts, fault) ==
    IF state.query = <<>>
    THEN [state EXCEPT !.errors = Append(@, "No query provided to query agent")]
    ELSE IF fault \in {"ner", "llm_init"}
    THEN [state EXCEPT !.errors = Append(@, "Query error"), !.results = <<>>]
    ELSE LET query_entities ==
                 MergeQueryEntities(ner_dict,
                                    IF fault = "llm" THEN EmptyEntities ELSE llm_dict)
             query_type == _determine_query_type(query_entities)
             typed == [state EXCEPT !.query_entities = query_entities,
                                    !.query_type = query_type]
             similar_articles ==
                 search_similar(store, state.query, order,
                                query_similarity_threshold, fault = "search")
         IN  IF fault \in {"embed", "get_article", "get_articles_by_entity",
                           "get_entities", "get_stock_impacts"}
             THEN typed
             ELSE [typed EXCEPT !.results =
                      QueryResults(query_entities, query_type, similar_articles,
                                   table, entities, impacts)]

Queries == {qHDFC, qBank, qRBI, qXY, <<>>}

ChoiceQueries ==
    {ChoiceText("q", i, j) : i \in DOMAIN ChoiceDigits, j \in DOMAIN ChoiceDigits}

QueriesOf(e) ==
    IF e = "reliable" THEN Queries
    ELSE IF e = "queries" THEN ChoiceQueries
    ELSE {qHDFC, <<>>}

QNerOut(query) ==
    IF IsChoiceText(query, "q") THEN NerChoices[ChoiceIndex(query[Len(query) - 1])]
    ELSE IF query = qHDFC THEN Dict(<<vHDFC>>, <<>>, <<>>)
    ELSE IF query = qBank THEN Dict(<<>>, <<vBanking>>, <<>>)
    ELSE Dict(<<>>, <<>>, <<>>)

QLlmOut(query) ==
    IF IsChoiceText(query, "q") THEN LlmChoices[ChoiceIndex(query[Len(query)])]
    ELSE IF query = qHDFC THEN Dict(<<vhdfc>>, <<>>, <<>>)
    ELSE IF query = qRBI THEN Dict(<<>>, <<>>, <<vRBI>>)
    ELSE Dict(<<>>, <<>>, <<>>)

QueryFaults ==
    {"ner", "llm_init", "llm", "search", "embed", "get_article",
     "get_articles_by_entity", "get_entities", "get_stock_impacts"}

\* graph.invoke(create_query_state(query)), between process_article runs
Query(query) ==
    /\ qpc = "idle"
    /\ \A r \in Runs : pc[r] \in {"idle", "done"}
    /\ query \in QueriesOf(env)
    /\ \E fault \in Faults(QueryFaults) :
       \E order \in NearestOrders(vdb, DOMAIN vdb, query, QueryNResults) :
          /\ fault # "none" =>
                QueryCallMade(fault, query, QNerOut(query), QLlmOut(query), vdb, order,
                              rows, sqlEntities)
          /\ qst' = [state |-> query_agent(create_query_state(query), QNerOut(query),
                                           QLlmOut(query), vdb, order, rows,
                                           sqlEntities, sqlImpacts, fault),
                     fault |-> fault, order |-> order]
          /\ Spend(fault)
    /\ qpc' = "done"
    /\ UNCHANGED <<pc, st, ran, raised, made, healed, seen, env>>
    /\ UNCHANGED_stores

-----------------------------------------------------------------------------
(* Specifications *)

NoState == create_article_state(NoArticle)

InitRuns ==
    /\ pc = [r \in Runs |-> "idle"]
    /\ st = [r \in Runs |-> NoState]
    /\ ran = [r \in Runs |-> <<>>]
    /\ raised = [r \in Runs |-> {}]
    /\ made = [r \in Runs |-> {}]
    /\ healed = [r \in Runs |-> 0]
    /\ seen = [r \in Runs |-> {}]
    /\ qst = [state |-> create_query_state(<<>>), fault |-> "none", order |-> <<>>]
    /\ qpc = "idle"

EmptyStores ==
    /\ rows = <<>>
    /\ sqlEntities = <<>>
    /\ sqlImpacts = <<>>

\* a new deployment: both stores empty, collaborators that do not fail
Init ==
    /\ InitRuns /\ EmptyStores
    /\ vdb = <<>>
    /\ faultsLeft = 0
    /\ env = "reliable"

\* a new deployment whose collaborators may fail
InitFaulty ==
    /\ InitRuns /\ EmptyStores
    /\ vdb = <<>>
    /\ faultsLeft = MaxFaults
    /\ env = "faulty"

OrphanDocs == {dAB, dXY}

\* the relational database was recreated and the ChromaDB directory kept: the
\* collection holds entries for the ids 1..k of the old articles
InitOrphans ==
    /\ InitRuns /\ EmptyStores
    /\ \E k \in 1..MaxOrphans :
       \E docs \in [1..k -> OrphanDocs] :
          vdb = [i \in 1..k |-> [doc |-> docs[i], by |-> 0]]
    /\ faultsLeft = 0
    /\ env = "orphans"

\* a new deployment used by several processes at once (the API server and
\* scripts/ingest_news.py share the database and the ChromaDB directory)
InitConcurrent ==
    /\ InitRuns /\ EmptyStores
    /\ vdb = <<>>
    /\ faultsLeft = 0
    /\ env = "concurrent"

\* a new deployment, reliable collaborators, articles that draw every pair of
\* extractor outputs
InitExtractors ==
    /\ InitRuns /\ EmptyStores
    /\ vdb = <<>>
    /\ faultsLeft = 0
    /\ env = "extractors"

\* a new deployment, reliable collaborators, queries that draw every pair of
\* extractor outputs
InitQueries ==
    /\ InitRuns /\ EmptyStores
    /\ vdb = <<>>
    /\ faultsLeft = 0
    /\ env = "queries"

\* a new deployment, reliable collaborators, articles near one another
InitNeighbours ==
    /\ InitRuns /\ EmptyStores
    /\ vdb = <<>>
    /\ faultsLeft = 0
    /\ env = "neighbours"

\* a new deployment whose mappings file lists one more company
InitMappings ==
    /\ InitRuns /\ EmptyStores
    /\ vdb = <<>>
    /\ faultsLeft = 0
    /\ env = "mappings"

Next ==
    \/ \E r \in Runs, article \in InputsOf(env) : Start(r, article)
    \/ \E r \in Runs : Ingestion(r)
    \/ \E r \in Runs : Deduplication(r)
    \/ \E r \in Runs : EntityExtraction(r)
    \/ \E r \in Runs : StockImpact(r)
    \/ \E r \in Runs : Storage(r)
    \/ \E r \in Runs : StoreArticle(r)
    \/ \E r \in Runs : StoreEntities(r)
    \/ \E r \in Runs : StoreStockImpacts(r)
    \/ \E r \in Runs : AddNews(r)
    \/ \E query \in QueriesOf(env) : Query(query)

Spec == Init /\ [][Next]_vars
SpecFaulty == InitFaulty /\ [][Next]_vars
SpecOrphans == InitOrphans /\ [][Next]_vars
SpecConcurrent == InitConcurrent /\ [][Next]_vars
SpecExtractors == InitExtractors /\ [][Next]_vars
SpecQueries == InitQueries /\ [][Next]_vars
SpecNeighbours == InitNeighbours /\ [][Next]_vars
SpecMappings == InitMappings /\ [][Next]_vars

-----------------------------------------------------------------------------
(* Properties of process_article and process_query *)

\* C1: every process_article run ends with article_id populated or with a
\* non-empty errors list, whatever collaborator call fails
C1_IdOrErrors ==
    \A r \in Runs :
        pc[r] = "done" => (st[r].article_id # 0 \/ st[r].errors # <<>>)

\* C2: of two runs made one after the other on a new deployment without a
\* collaborator failure, the first storing its article as new, the second ends
\* as a duplicate of the first article's id when the similarity of the two
\* embeddings is at least the deduplication threshold, and as not a duplicate
\* when it is below
C2_SecondRunDuplicate ==
    ( /\ pc[1] = "done" /\ pc[2] = "done"
      /\ made[1] # {}
      /\ Embeddable(st[1].article) /\ Embeddable(st[2].article) )
    => IF 1000 - Distance(DocOf(st[1].article), DocOf(st[2].article)) >= 900
       THEN st[2].is_duplicate /\ st[2].duplicate_of_id \in made[1]
       ELSE ~st[2].is_duplicate

\* the second article lies exactly at the threshold and ends as a duplicate
C2_Witness ==
    /\ pc[1] = "done" /\ pc[2] = "done" /\ made[1] = {1}
    /\ 1000 - Distance(DocOf(st[1].article), DocOf(st[2].article)) = 900
    /\ st[2].is_duplicate /\ st[2].duplicate_of_id = 1

\* C3: a run whose article fails validation in ingestion executes no stage
\* after ingestion
C3_ValidationShortCircuits ==
    \A r \in Runs :
        (pc[r] # "idle" /\ st[r].article.present /\ ~IsValid(st[r].article))
        => \A i \in DOMAIN ran[r] : ran[r][i] = "ingestion"

\* C4: the stages of a run execute in the order ingestion, deduplication,
\* entity extraction, (stock impact), storage, each at most once; after entity
\* extraction control goes to stock impact when is_duplicate is false and to
\* storage when it is true; a run ends only after storage
C4_StageOrder ==
    [][\A r \in Runs :
          /\ \/ ran'[r] = SubSeq(<<"ingestion", "deduplication", "entity_extraction",
                                   "stock_impact", "storage">>, 1, Len(ran'[r]))
             \/ ran'[r] = SubSeq(<<"ingestion", "deduplication", "entity_extraction",
                                   "storage">>, 1, Len(ran'[r]))
          /\ (pc[r] = "entity_extraction" /\ pc'[r] # "entity_extraction")
             => pc'[r] = IF st'[r].is_duplicate THEN "storage" ELSE "stock_impact"
          /\ (ran'[r] # ran[r] /\ ran'[r][Len(ran'[r])] = "stock_impact")
             => ~st[r].is_duplicate
          /\ (ran'[r] # ran[r] /\ Len(ran'[r]) = 4 /\ ran'[r][4] = "storage")
             => st[r].is_duplicate
          /\ pc'[r] = "done" => ran'[r][Len(ran'[r])] = "storage"]_vars

\* one run went through stock impact and the next one skipped it
C4_Witness ==
    /\ pc[1] = "done" /\ pc[2] = "done"
    /\ ran[1] = <<"ingestion", "deduplication", "entity_extraction",
                  "stock_impact", "storage">>
    /\ ran[2] = <<"ingestion", "deduplication", "entity_extraction", "storage">>
    /\ st[2].is_duplicate

C6_SelfHeal ==
    \A r \in Runs :
        (pc[r] = "done" /\ healed[r] # 0)
        => /\ ~st[r].is_duplicate /\ st[r].duplicate_of_id = 0
           /\ healed[r] \in DOMAIN vdb => healed[r] = st[r].article_id
           /\ st[r].article_id \in made[r]
           /\ st[r].article_id \in DOMAIN rows
           /\ st[r].article_id \in DOMAIN vdb
           /\ vdb[st[r].article_id].doc = DocOf(st[r].article)

\* C7: a run in which store_article, store_entities, store_stock_impacts or the
\* addition of the vector entry failed ends with a non-empty errors list
C7_StoreFailureReported ==
    \A r \in Runs :
        ( /\ pc[r] = "done"
          /\ \E call \in {"store_article", "store_entities", "store_stock_impacts",
                          "add_news"} : <<"storage", call>> \in raised[r] )
        => st[r].errors # <<>>

\* C8: a query run in which a step failed ends with results = [] and with an
\* error appended to errors
C8_QueryFailsClosed ==
    (qpc = "done" /\ qst.fault # "none")
    => (qst.state.results = <<>> /\ qst.state.errors # <<>>)

C10_SearchFailureReported ==
    \A r \in Runs :
        (pc[r] = "done" /\ <<"deduplication", "search">> \in raised[r]
            /\ \A x \in raised[r] : x[1] # "storage")
        => /\ st[r].errors # <<>>
           /\ ~st[r].is_duplicate
           /\ st[r].article_id \in made[r]

\* C11: two runs carrying the same content whose deduplication reads both
\* happened before any storage write both end with is_duplicate false, and the
\* content is stored under two distinct ids in the relational store and in the
\* vector store
C11_CheckThenActRace ==
    \A r1, r2 \in Runs :
        ( /\ r1 # r2
          /\ pc[r1] = "done" /\ pc[r2] = "done"
          /\ IsValid(st[r1].article) /\ IsValid(st[r2].article)
          /\ DocOf(st[r1].article) = DocOf(st[r2].article)
          /\ seen[r1] = {} /\ seen[r2] = {} )
        => /\ ~st[r1].is_duplicate /\ ~st[r2].is_duplicate
           /\ st[r1].article_id # st[r2].article_id
           /\ \A r \in {r1, r2} :
                 /\ st[r].article_id \in made[r]
                 /\ rows[st[r].article_id].content = st[r].article.content
                 /\ st[r].article_id \in DOMAIN vdb
                 /\ vdb[st[r].article_id].doc = DocOf(st[r].article)

\* both runs read the empty collection and the same text is stored twice
C11_Witness ==
    /\ pc[1] = "done" /\ pc[2] = "done"
    /\ seen[1] = {} /\ seen[2] = {}
    /\ DocOf(st[1].article) = DocOf(st[2].article)
    /\ st[1].article.source # st[2].article.source
    /\ ~st[1].is_duplicate /\ ~st[2].is_duplicate
    /\ {st[1].article_id, st[2].article_id} = {1, 2}
    /\ Len(rows) = 2 /\ rows[1].content = rows[2].content
    /\ DOMAIN vdb = {1, 2} /\ vdb[1].doc = vdb[2].doc

\* no two entries of the list have the same key (entity type, lower-cased
\* trimmed value)
NoSharedKey(list) ==
    \A i, j \in DOMAIN list :
        ( /\ list[i].entity_type = list[j].entity_type
          /\ Strip(ToLower(list[i].entity_value))
               = Strip(ToLower(list[j].entity_value)) ) => i = j

\* the lists merged from every pair of extractor outputs
EveryPairUnique ==
    \A i \in DOMAIN NerChoices, j \in DOMAIN LlmChoices :
        /\ NoSharedKey(MergeEntities(NerChoices[i], LlmChoices[j]))
        /\ NoSharedKey(MergeQueryEntities(NerChoices[i], LlmChoices[j]))

\* C12: the entities list of the entity-extraction stage and the query_entities
\* list of the query stage hold no two entries with the same key (normalized
\* entity type, lower-cased trimmed value), for every pair of extractor outputs
C12_UniqueEntityKeys ==
    /\ \A r \in Runs : NoSharedKey(st[r].entities)
    /\ qpc = "done" => NoSharedKey(qst.state.query_entities)
    /\ EveryPairUnique

\* both extractors reported one key, for an article and for a query, in two
\* spellings, and the lists hold it once
C12_Witness ==
    /\ \E r \in Runs :
          /\ "entity_extraction" \in Range(ran[r])
          /\ NerOut(DocOf(st[r].article)) = NerChoices[3]
          /\ LlmOut(DocOf(st[r].article)) = LlmChoices[2]
          /\ Len(st[r].entities) = 4
    /\ qpc = "done"
    /\ QNerOut(qst.state.query) = NerChoices[3]
    /\ QLlmOut(qst.state.query) = LlmChoices[5]
    /\ Len(qst.state.query_entities) = 5

C14_SucceededExtractorKept ==
    \A r \in Runs :
        /\ (\E f \in {"ner", "llm_init"} : <<"entity_extraction", f>> \in raised[r])
              => "Entity extraction error" \in Range(st[r].errors)
        /\ <<"entity_extraction", "llm_init">> \in raised[r]
              => st[r].entities
                   = MergeEntities(NerOut(DocOf(st[r].article)), EmptyEntities)

\* C15: stock_impacts has no two entries with the same (stock_symbol,
\* impact_type), and in the list the stock-impact stage hands to the storage
\* stage the entry of a key carries the source_entity and the confidence of
\* the first entity, in entity-list order, that maps to the key
C15_FirstImpactPerKey ==
    \A r \in Runs :
        LET entities == st[r].entities
            impacts  == st[r].stock_impacts
            mapped   == UNION { { <<k, m.stock_symbol, m.impact_type>> :
                                    m \in Range(map_entity_to_stocks(
                                                   entities[k].entity_type,
                                                   entities[k].entity_value, "fwd")) }
                                : k \in DOMAIN entities }
            Maps(k, x) == <<k, x.stock_symbol, x.impact_type>> \in mapped
        IN  /\ \A i, j \in DOMAIN impacts :
                  ( /\ impacts[i].stock_symbol = impacts[j].stock_symbol
                    /\ impacts[i].impact_type = impacts[j].impact_type ) => i = j
            /\ (pc[r] = "storage" /\ "stock_impact" \in Range(ran[r])) =>
                  \A i \in DOMAIN impacts :
                      \E k \in DOMAIN entities :
                          /\ Maps(k, impacts[i])
                          /\ \A l \in 1..(k - 1) : ~Maps(l, impacts[i])
                          /\ impacts[i].source_entity = entities[k].entity_value
                          /\ impacts[i].source_entity_type = entities[k].entity_type
                          /\ impacts[i].confidence
                               = ImpactConfidence([impact_type |-> impacts[i].impact_type,
                                                   base_confidence |-> 0], entities[k])

\* HDFC and HDFC Bank both map to (HDFCBANK, direct), RBI and SEBI both to
\* (HDFCBANK, regulatory): each key has one entry, that of the first entity
C15_Witness ==
    \E r \in Runs :
        /\ "stock_impact" \in Range(ran[r])
        /\ \E k, l \in DOMAIN st[r].entities :
              /\ k < l
              /\ st[r].entities[k].entity_value = vHDFC
              /\ st[r].entities[l].entity_value = vHDFCBank
        /\ \E k, l \in DOMAIN st[r].entities :
              /\ k < l
              /\ st[r].entities[k].entity_value = vRBI
              /\ st[r].entities[l].entity_value = vSEBI
        /\ \E i, j \in DOMAIN st[r].stock_impacts :
              /\ st[r].stock_impacts[i].stock_symbol = "HDFCBANK"
              /\ st[r].stock_impacts[i].impact_type = "direct"
              /\ st[r].stock_impacts[i].source_entity = vHDFC
              /\ st[r].stock_impacts[j].stock_symbol = "HDFCBANK"
              /\ st[r].stock_impacts[j].impact_type = "regulatory"
              /\ st[r].stock_impacts[j].source_entity = vRBI

\* C16: stock_impacts is ordered by confidence, highest first: no entry is
\* followed by an entry with a larger confidence
C16_ImpactsSortedDescending ==
    \A r \in Runs :
        \A i, j \in DOMAIN st[r].stock_impacts :
            i < j => st[r].stock_impacts[i].confidence >= st[r].stock_impacts[j].confidence

\* a list of direct, regulatory and sector impacts whose entities came in the
\* order company, sector, regulator: the regulatory impacts (0.86 and more)
\* were moved before the sector impacts (0.79 and less)
C16_Witness ==
    \E r \in Runs :
        /\ "stock_impact" \in Range(ran[r])
        /\ \E k, l \in DOMAIN st[r].entities :
              /\ k < l
              /\ st[r].entities[k].entity_type = "sector"
              /\ st[r].entities[l].entity_type = "regulator"
        /\ \E i, j, k \in DOMAIN st[r].stock_impacts :
              /\ i < j /\ j < k
              /\ st[r].stock_impacts[i].impact_type = "direct"
              /\ st[r].stock_impacts[j].impact_type = "regulatory"
              /\ st[r].stock_impacts[k].impact_type = "sector"
              /\ st[r].stock_impacts[j].confidence > st[r].stock_impacts[k].confidence

\* C17: a direct impact has confidence 1.0 whatever the entity's confidence, a
\* sector impact 0.6 + 0.2 x entity confidence, a regulatory impact
\* 0.5 + 0.4 x entity confidence, so that sector confidences lie in [0.6, 0.8]
\* and regulatory confidences in [0.5, 0.9]
C17_TierConfidence ==
    \A r \in Runs :
        \A i \in DOMAIN st[r].stock_impacts :
            LET x == st[r].stock_impacts[i] IN
            \E k \in DOMAIN st[r].entities :
                LET e == st[r].entities[k] IN
                /\ x.source_entity = e.entity_value
                /\ x.source_entity_type = e.entity_type
                /\ x.impact_type \in {"direct", "sector", "regulatory"}
                /\ x.impact_type = "direct" => x.confidence = 1000
                /\ x.impact_type = "sector" =>
                      /\ 1000 * x.confidence + 500 >= 600000 + 200 * e.confidence
                      /\ 1000 * x.confidence - 500 <= 600000 + 200 * e.confidence
                      /\ x.confidence >= 600 /\ x.confidence <= 800
                /\ x.impact_type = "regulatory" =>
                      /\ 1000 * x.confidence + 500 >= 500000 + 400 * e.confidence
                      /\ 1000 * x.confidence - 500 <= 500000 + 400 * e.confidence
                      /\ x.confidence >= 500 /\ x.confidence <= 900

\* impacts of the three tiers in one list: direct 1.0 from a 0.9 and from a
\* 0.95 company, sector 0.78 and 0.79 from a 0.9 and a 0.95 sector, regulatory
\* 0.86 from a 0.9 regulator
C17_Witness ==
    \E r \in Runs :
        LET tiers == {<<st[r].stock_impacts[i].impact_type,
                        st[r].stock_impacts[i].confidence>> :
                          i \in DOMAIN st[r].stock_impacts}
        IN  /\ {<<"direct", 1000>>, <<"sector", 780>>, <<"sector", 790>>} \subseteq tiers
            /\ <<"regulatory", 860>> \in tiers
            /\ \E k, l \in DOMAIN st[r].entities :
                  /\ st[r].entities[k].entity_type = "company"
                  /\ st[r].entities[l].entity_type = "company"
                  /\ st[r].entities[k].confidence = 900
                  /\ st[r].entities[l].confidence = 950
                  /\ \E i, j \in DOMAIN st[r].stock_impacts :
                        /\ st[r].stock_impacts[i].source_entity = st[r].entities[k].entity_value
                        /\ st[r].stock_impacts[j].source_entity = st[r].entities[l].entity_value
                        /\ st[r].stock_impacts[i].impact_type = "direct"
                        /\ st[r].stock_impacts[j].impact_type = "direct"

\* the type the priority company, sector, regulator, theme gives a set of types
ByPriority(types) ==
    IF "company" \in types THEN "company"
    ELSE IF "sector" \in types THEN "sector"
    ELSE IF "regulator" \in types THEN "regulator"
    ELSE "theme"

TypesOf(list) == {list[k].entity_type : k \in DOMAIN list}

\* the query type of the list merged from every pair of extractor outputs, and
\* of the same list reversed
EveryPairByPriority ==
    \A i \in DOMAIN NerChoices, j \in DOMAIN LlmChoices :
        LET list == MergeQueryEntities(NerChoices[i], LlmChoices[j])
        IN  /\ _determine_query_type(list) = ByPriority(TypesOf(list))
            /\ _determine_query_type(Reverse(list)) = _determine_query_type(list)

\* C18: the query type is company if a company entity was found in the query,
\* else sector if a sector entity, else regulator if a regulator entity, else
\* theme, whatever the order of the entities
C18_QueryTypePriority ==
    /\ (qpc = "done" /\ qst.fault = "none") =>
          LET found == Flatten(QNerOut(qst.state.query))
                         \o Flatten(QLlmOut(qst.state.query))
          IN  /\ qst.state.query_type
                   = ByPriority({found[k][1] : k \in {n \in DOMAIN found :
                                                        found[n][2] # <<>>}})
              /\ qst.state.query_type = ByPriority(TypesOf(qst.state.query_entities))
    /\ EveryPairByPriority

\* a query whose first entity is a regulator, followed by company and sector
\* entities, is a company query
C18_Witness ==
    /\ qpc = "done"
    /\ Len(qst.state.query_entities) >= 3
    /\ qst.state.query_entities[1].entity_type = "regulator"
    /\ \E k \in DOMAIN qst.state.query_entities :
          qst.state.query_entities[k].entity_type = "sector"
    /\ \E k \in DOMAIN qst.state.query_entities :
          k > 1 /\ qst.state.query_entities[k].entity_type = "company"
    /\ qst.state.query_type = "company"

\* C19: in the results of process_query an article returned by the semantic
\* search carries the similarity the vector store reported for it, and an
\* article found by entity expansion only carries 0.85 for a company, sector
\* or regulator query and 0.70 for a theme query
C19_ResultScores ==
    (qpc = "done" /\ qst.fault = "none") =>
        \A i \in DOMAIN qst.state.results :
            LET x == qst.state.results[i]
                reported == 1000 - Distance(qst.state.query, vdb[x.article_id].doc)
            IN  IF x.article_id \in DOMAIN vdb /\ reported >= query_similarity_threshold
                THEN x.similarity_score = reported
                ELSE x.similarity_score =
                        IF qst.state.query_type \in {"company", "sector", "regulator"}
                        THEN 850 ELSE 700

\* a company query whose results hold an article of the semantic search with
\* the reported similarity 0.75 and an article of the expansion with 0.85
C19_Witness ==
    /\ qpc = "done" /\ qst.fault = "none"
    /\ qst.state.query_type = "company"
    /\ \E i, j \in DOMAIN qst.state.results :
          /\ qst.state.results[i].similarity_score = 850
          /\ 1000 - Distance(qst.state.query, vdb[qst.state.results[i].article_id].doc)
               < query_similarity_threshold
          /\ qst.state.results[j].similarity_score = 750
          /\ 1000 - Distance(qst.state.query, vdb[qst.state.results[j].article_id].doc)
               = 750

\* C20: the results of process_query hold no two entries with the same
\* article_id, also for an article found by the semantic search and by the
\* expansion, or by the expansion of several query entities
C20_ResultsDistinct ==
    qpc = "done" =>
        \A i, j \in DOMAIN qst.state.results :
            qst.state.results[i].article_id = qst.state.results[j].article_id => i = j

\* a company query with the entities HDFC and HDFC Bank whose semantic search
\* returned an article that holds both companies: the article is found three
\* times and is in the results once
C20_Witness ==
    /\ qpc = "done" /\ qst.fault = "none"
    /\ qst.state.query_type = "company"
    /\ \E k, l \in DOMAIN qst.state.query_entities :
          /\ k # l
          /\ qst.state.query_entities[k].entity_type = "company"
          /\ qst.state.query_entities[l].entity_type = "company"
          /\ \E i \in DOMAIN qst.state.results :
                LET id == qst.state.results[i].article_id IN
                /\ 1000 - Distance(qst.state.query, vdb[id].doc) >= query_similarity_threshold
                /\ id \in Range(get_articles_by_entity(rows, sqlEntities, "company",
                                    qst.state.query_entities[k].entity_value))
                /\ id \in Range(get_articles_by_entity(rows, sqlEntities, "company",
                                    qst.state.query_entities[l].entity_value))

\* C21: the results of process_query are sorted by similarity_score, highest
\* first, and entries of equal score keep their retrieval order: the hits of
\* the semantic search in the order the vector store returned them, then the
\* articles of the expansion in the order they were fetched
C21_ResultsSortedStable ==
    (qpc = "done" /\ qst.fault = "none") =>
        LET results == qst.state.results
            qtype   == qst.state.query_type
            qents   == qst.state.query_entities
            MinIn(S) == CHOOSE x \in S : \A y \in S : x <= y
            Semantic(id) ==
                /\ id \in Range(qst.order)
                /\ 1000 - Distance(qst.state.query, vdb[id].doc) >= query_similarity_threshold
            Returned(id) == MinIn({k \in DOMAIN qst.order : qst.order[k] = id})
            Fetched(n) == get_articles_by_entity(rows, sqlEntities, qtype,
                                                 qents[n].entity_value)
            Fetching(id) == {n \in DOMAIN qents : /\ qents[n].entity_type = qtype
                                                  /\ id \in Range(Fetched(n))}
            Place(id) == LET n == MinIn(Fetching(id))
                         IN  <<n, MinIn({k \in DOMAIN Fetched(n) : Fetched(n)[k] = id})>>
            Before(a, b) ==
                IF Semantic(a) /\ Semantic(b) THEN Returned(a) < Returned(b)
                ELSE IF Semantic(a) THEN TRUE
                ELSE IF Semantic(b) THEN FALSE
                ELSE \/ Place(a)[1] < Place(b)[1]
                     \/ Place(a)[1] = Place(b)[1] /\ Place(a)[2] < Place(b)[2]
        IN  \A i, j \in DOMAIN results :
                i < j =>
                    /\ results[i].similarity_score >= results[j].similarity_score
                    /\ results[i].similarity_score = results[j].similarity_score
                          => Before(results[i].article_id, results[j].article_id)

\* a regulator query whose semantic hit was reported with 0.85, the score of
\* the article of the expansion: the hit, stored later, comes first
C21_Witness ==
    /\ qpc = "done" /\ qst.fault = "none"
    /\ qst.state.query_type = "regulator"
    /\ Len(qst.state.results) = 2
    /\ qst.state.results[1].similarity_score = 850
    /\ qst.state.results[2].similarity_score = 850
    /\ 1000 - Distance(qst.state.query, vdb[qst.state.results[1].article_id].doc) = 850
    /\ 1000 - Distance(qst.state.query, vdb[qst.state.results[2].article_id].doc)
         < query_similarity_threshold
    /\ qst.state.results[1].article_id > qst.state.results[2].article_id

\* C22: for a company, sector or regulator query every article the relational
\* store returns for a query entity of that type is in the results, also when
\* the semantic search did not return it; for a theme query every result is a
\* hit of the semantic search; the hits of the semantic search are in the
\* results for every query type
C22_ExpansionIncluded ==
    (qpc = "done" /\ qst.fault = "none" /\ qst.state.query # <<>>) =>
        LET results == qst.state.results
            qtype   == qst.state.query_type
            qents   == qst.state.query_entities
            ids     == {results[i].article_id : i \in DOMAIN results}
            Semantic(id) ==
                /\ id \in DOMAIN vdb
                /\ 1000 - Distance(qst.state.query, vdb[id].doc) >= query_similarity_threshold
        IN  /\ qtype \in {"company", "sector", "regulator"} =>
                  \A n \in DOMAIN qents :
                      qents[n].entity_type = qtype =>
                          Range(get_articles_by_entity(rows, sqlEntities, qtype,
                                                       qents[n].entity_value)) \subseteq ids
            /\ qtype \notin {"company", "sector", "regulator"} =>
                  /\ qtype = "theme"
                  /\ \A id \in ids : Semantic(id)
            /\ \A id \in DOMAIN vdb : (Semantic(id) /\ HasRow(rows, id)) => id \in ids

\* a sector query answered by an article of the relational store that the
\* semantic search did not return
C22_Witness ==
    /\ qpc = "done" /\ qst.fault = "none"
    /\ qst.state.query_type = "sector"
    /\ \E i \in DOMAIN qst.state.results :
          LET id == qst.state.results[i].article_id IN
          /\ 1000 - Distance(qst.state.query, vdb[id].doc) < query_similarity_threshold
          /\ \E n \in DOMAIN qst.state.query_entities :
                /\ qst.state.query_entities[n].entity_type = "sector"
                /\ id \in Range(get_articles_by_entity(rows, sqlEntities, "sector",
                                   qst.state.query_entities[n].entity_value))

\* C23: when the deduplication node marks an article as a duplicate, the
\* article it names is stored in the vector store, clears the deduplication
\* threshold, and no stored article is more similar to the incoming one: a
\* neighbour of lower similarity is never chosen.
C23_NearestNeighbourChosen ==
    [][\A r \in Runs :
          (/\ pc[r] = "deduplication"
           /\ pc'[r] = "entity_extraction"
           /\ st'[r].is_duplicate)
          => LET doc == DocOf(st[r].article)
                 Sim(i) == 1000 - Distance(doc, vdb[i].doc)
                 chosen == st'[r].duplicate_of_id
             IN  /\ chosen \in DOMAIN vdb
                 /\ Sim(chosen) >= deduplication_threshold
                 /\ \A i \in DOMAIN vdb : Sim(i) <= Sim(chosen)]_vars

\* a run has just been marked a duplicate of the later stored of two articles
\* that both clear the threshold, the earlier stored being less similar
C23_Witness ==
    \E r \in Runs :
       /\ pc[r] = "entity_extraction"
       /\ st[r].is_duplicate
       /\ Embeddable(st[r].article)
       /\ LET doc == DocOf(st[r].article)
              Sim(i) == 1000 - Distance(doc, vdb[i].doc)
              chosen == st[r].duplicate_of_id
          IN  /\ chosen \in DOMAIN vdb
              /\ \E other \in DOMAIN vdb :
                    /\ other < chosen
                    /\ Sim(other) >= deduplication_threshold
                    /\ Sim(other) < Sim(chosen)

\* the keys of the table a rule selects for a name, and the symbol of the first
KeysEqual(n) == {i \in DOMAIN company_to_symbol : company_to_symbol[i][1] = n}
KeysEqualIgnoringCase(n) ==
    {i \in DOMAIN company_to_symbol : ToLower(company_to_symbol[i][1]) = ToLower(n)}
KeysContaining(n) ==
    {i \in DOMAIN company_to_symbol :
        /\ Len(company_to_symbol[i][1]) >= 4
        /\ \/ IsSubstring(ToLower(n), ToLower(company_to_symbol[i][1]))
           \/ IsSubstring(ToLower(company_to_symbol[i][1]), ToLower(n))}
SymbolOfFirst(keys) == company_to_symbol[MinOf(keys)][2]

\* the symbol by the three rules applied to the name without its legal suffix
SymbolByThreeRules(name) ==
    LET n == normalize_company_name(name)
    IN  IF KeysEqual(n) # {} THEN SymbolOfFirst(KeysEqual(n))
        ELSE IF KeysEqualIgnoringCase(n) # {} THEN SymbolOfFirst(KeysEqualIgnoringCase(n))
        ELSE IF KeysContaining(n) # {} THEN SymbolOfFirst(KeysContaining(n))
        ELSE ""

\* the same, with the containment rule applied to the name as given when the
\* three rules find no key
SymbolByFourRules(name) ==
    IF SymbolByThreeRules(name) # "" THEN SymbolByThreeRules(name)
    ELSE IF KeysContaining(name) # {} THEN SymbolOfFirst(KeysContaining(name))
    ELSE ""

\* what the run's stock impacts and the mapper say of the company entities of
\* a run that has computed its stock impacts, Symbol being the expected symbol
CompaniesMappedBy(Symbol(_)) ==
    \A r \in Runs :
       (pc[r] = "storage" /\ "stock_impact" \in Range(ran[r]) /\ raised[r] = {})
       => \A k \in DOMAIN st[r].entities :
             LET e == st[r].entities[k]
                 sym == Symbol(e.entity_value)
                 direct == {i \in DOMAIN st[r].stock_impacts :
                               /\ st[r].stock_impacts[i].source_entity = e.entity_value
                               /\ st[r].stock_impacts[i].impact_type = "direct"}
                 earlier == \E j \in 1..(k - 1) :
                               /\ st[r].entities[j].entity_type = "company"
                               /\ Symbol(st[r].entities[j].entity_value) = sym
             IN  e.entity_type = "company"
                 => /\ map_entity_to_stocks(e.entity_type, e.entity_value, "fwd")
                         = IF sym = "" THEN <<>>
                           ELSE <<Mapping(sym, 1000, "direct")>>
                    /\ \A i \in direct :
                          /\ st[r].stock_impacts[i].stock_symbol = sym
                          /\ st[r].stock_impacts[i].confidence = 1000
                    /\ Cardinality(direct) = IF sym = "" \/ earlier THEN 0 ELSE 1

\* C24 (as stated): a company name resolves, after its trailing legal suffix
\* is stripped, to the symbol of the key equal to it, else of the first key
\* equal to it ignoring case, else of the first key of length >= 4 that
\* contains it or is contained in it, else to no symbol; a found symbol is
\* reported as one (symbol, 1.0, direct) mapping.
C24_ThreeRules == CompaniesMappedBy(SymbolByThreeRules)

\* C24 (amended): as above, but a name for which the three rules find no key
\* resolves to the first key of length >= 4 that contains the name as given,
\* suffix included, or is contained in it; only then is there no symbol.
C24_FourRules == CompaniesMappedBy(SymbolByFourRules)

\* a run has computed the impacts of a list of companies of which one is found
\* by the exact rule after its suffix is stripped, one ignoring case, one by
\* containment, one only in a key too short to count, and one with its suffix only
C24_Witness ==
    \E r \in Runs :
       /\ pc[r] = "storage" /\ "stock_impact" \in Range(ran[r]) /\ raised[r] = {}
       /\ \E a, b, c, d, f \in DOMAIN st[r].entities :
             LET Name(k) == st[r].entities[k].entity_value
                 Norm(k) == normalize_company_name(Name(k))
             IN  /\ \A k \in {a, b, c, d, f} : st[r].entities[k].entity_type = "company"
                 /\ Norm(a) # Name(a) /\ KeysEqual(Norm(a)) # {}
                 /\ KeysEqual(Norm(b)) = {} /\ KeysEqualIgnoringCase(Norm(b)) # {}
                 /\ KeysEqualIgnoringCase(Norm(c)) = {} /\ KeysContaining(Norm(c)) # {}
                 /\ SymbolByFourRules(Name(d)) = ""
                 /\ \E i \in DOMAIN company_to_symbol :
                       /\ Len(company_to_symbol[i][1]) < 4
                       /\ IsSubstring(ToLower(Name(d)), ToLower(company_to_symbol[i][1]))
                 /\ SymbolByThreeRules(Name(f)) = ""
                 /\ SymbolByFourRules(Name(f)) # ""
                 /\ \E i \in DOMAIN st[r].stock_impacts :
                       /\ st[r].stock_impacts[i].source_entity = Name(f)
                       /\ st[r].stock_impacts[i].stock_symbol = SymbolByFourRules(Name(f))

\* a text without leading or trailing whitespace and without two whitespace
\* characters in a row, which cleaning leaves as it is
IsNormalized(text) ==
    /\ text # <<>> => text[1] \notin Whitespace /\ text[Len(text)] \notin Whitespace
    /\ \A i \in 1..(Len(text) - 1) :
          ~(text[i] \in Whitespace /\ text[i + 1] \in Whitespace)
    /\ clean_text(text) = text

\* C25: the title and the content of an article that passed validation are
\* normalized when deduplication and the later stages see them: no leading or
\* trailing whitespace, no run of two or more whitespace characters, and
\* unchanged by another normalization.
C25_NormalizedDownstream ==
    \A r \in Runs :
       (/\ pc[r] \notin {"idle", "ingestion"}
        /\ st[r].article.present
        /\ "Invalid article" \notin Range(st[r].errors))
       => /\ IsNormalized(st[r].article.title.v)
          /\ IsNormalized(st[r].article.content.v)

\* C26: a run creates at most one article row: a step of a run adds at most
\* one row to the relational store, and none when the run has added one
\* before, also when the run found its duplicate target missing and stored the
\* article as new.
C26_AtMostOneRow ==
    [][\A r \in Runs :
          pc'[r] # pc[r]
          => /\ Len(rows') - Len(rows) <= (IF made[r] = {} THEN 1 ELSE 0)
             /\ Cardinality(made'[r]) <= 1]_vars

\* a run that found its duplicate target missing has ended with one row of its own
C26_Witness ==
    \E r \in Runs :
       /\ pc[r] = "done"
       /\ healed[r] # 0
       /\ Cardinality(made[r]) = 1
       /\ \A id \in made[r] : HasRow(rows, id)

\* C27: an article stored after its duplicate target was found missing is
\* stored as a new article would be: its entity rows are the entities
\* extracted from it and its stock-impact rows are the impacts computed from
\* those entities, as they are for the same article judged unique.
C27_HealedStoredAsNew ==
    \A r \in Runs :
       (pc[r] = "done" /\ healed[r] # 0 /\ raised[r] = {})
       => \A id \in made[r] :
             LET doc == DocOf(st[r].article)
                 entities == MergeEntities(NerOut(doc), LlmOut(doc))
             IN  /\ sqlEntities[id] = entities
                 /\ \E set_order \in {"fwd", "rev"} :
                       sqlImpacts[id] =
                           IF entities = <<>> THEN <<>>
                           ELSE SortByConfidence(AddImpacts(<<>>, {}, entities, set_order))

\* a stored field that is a string with a character other than whitespace
IsNonBlankString(field) == field.kind = "str" /\ Strip(field.v) # <<>>

\* C28: no article that fails validation is written to the relational store
\* or to the vector store: every article row, and the row of every
\* vector-store entry a run has added, has a non-blank string title and a
\* non-blank string content.
C28_OnlyValidStored ==
    /\ \A id \in DOMAIN rows :
          IsNonBlankString(rows[id].title) /\ IsNonBlankString(rows[id].content)
    /\ \A id \in DOMAIN vdb :
          vdb[id].by # 0
          => /\ HasRow(rows, id)
             /\ IsNonBlankString(rows[id].title)
             /\ IsNonBlankString(rows[id].content)

\* C29: when runs are interleaved on stores that start consistent, every id in
\* the vector store has a row in the relational store, and the removal of an
\* entry by a run that found its duplicate target missing never removes the
\* entry of an article that has a row.
C29_VectorEntriesHaveRows ==
    /\ [](\A id \in DOMAIN vdb : id \in DOMAIN rows)
    /\ [][\A id \in DOMAIN vdb : id \notin DOMAIN vdb' => id \notin DOMAIN rows]_vars

\* the second run searched the vector store before the first run's entry was
\* added; both have written their rows, and the first run's entry is in the
\* vector store while the second's is still to be added
C29_Witness ==
    /\ pc[1] = "done" /\ pc[2] = "add_news"
    /\ seen[2] = {}
    /\ made[1] # {} /\ made[2] # {}
    /\ made[1] \subseteq DOMAIN vdb
    /\ \A id \in made[2] : id \in DOMAIN rows /\ id \notin DOMAIN vdb

\* C30: a run that ends with is_duplicate false, article_id populated and no
\* errors has persisted its article in full: the row exists, the entity rows
\* and stock-impact rows of the article are those of the final state, and the
\* vector store holds the article's embedding under article_id.
C30_SuccessMeansPersisted ==
    \A r \in Runs :
       (/\ pc[r] = "done"
        /\ ~st[r].is_duplicate
        /\ st[r].article_id # 0
        /\ st[r].errors = <<>>)
       => LET id == st[r].article_id
          IN  /\ HasRow(rows, id)
              /\ sqlEntities[id] = st[r].entities
              /\ sqlImpacts[id] = st[r].stock_impacts
              /\ id \in DOMAIN vdb
              /\ vdb[id].doc = DocOf(st[r].article)

====
